---- MODULE Spec2Model ----
(***************************************************************************)
(* A model of the schema analyzer (db_analyzer.py) and of the Entity       *)
(* Framework code generator (download/ef_code_generator.py).               *)
(*                                                                         *)
(* Python strings are TLA+ strings (Len, SubSeq and \o act on them as in   *)
(* Python), Python lists are sequences, a Python dict is the sequence of   *)
(* its entries in insertion order, None-or-string is a sequence of length  *)
(* 0 or 1.                                                                 *)
(***************************************************************************)
EXTENDS Integers, Sequences, FiniteSets, TLC

VARIABLES
    schema,            \* the schema dict built by get_full_schema
    done,              \* the entry points that have returned so far
    all_unsorted,      \* analyze_database: all_recommendations before the sort
    recommendations,   \* analyze_database: the list returned
    metrics,           \* get_database_metrics: the dict returned
    printed,           \* what the functions wrote with print()
    code_files,        \* generate_ef_code: the dict returned by the last call
    prev_code_files,   \* generate_ef_code: the dict returned by the call before
    ident_in,          \* the argument of pascal_case / camel_case
    ident_out,         \* the value they returned
    raised,            \* the exceptions that left analyze_database / generate_ef_code
    type_in,           \* the argument of get_csharp_type
    type_out,          \* the values its calls returned, one per call
    dependency_graph,  \* create_dependency_graph: the graph returned
    uml,               \* generate_database_uml: the flags given and the graph returned
    session_state,     \* app.py: st.session_state of the SQL Server page
    ef_options,        \* app.py: the text inputs 'Namespace:' and 'DbContext Name:'
    displayed          \* app.py: what the last run of the page displayed

vars == <<schema, done, all_unsorted, recommendations, metrics, printed,
          code_files, prev_code_files, ident_in, ident_out, raised, type_in,
          type_out, dependency_graph, uml, session_state, ef_options, displayed>>

\* the variables of the page of app.py
app_vars == <<session_state, ef_options, displayed>>

-----------------------------------------------------------------------------
(* Bounds of the model *)

MaxRels == 3
MaxNameLen == 3
MaxPk == 3

-----------------------------------------------------------------------------
(* Python built-ins on strings and lists *)

\* needle in hay
Contains(hay, needle) ==
    \E i \in 1..(Len(hay) - Len(needle) + 1) :
        SubSeq(hay, i, i + Len(needle) - 1) = needle

\* hay.split(sep)[0]
SplitFirst(hay, sep) ==
    IF Contains(hay, sep)
    THEN LET i == CHOOSE k \in 1..(Len(hay) - Len(sep) + 1) :
                      /\ SubSeq(hay, k, k + Len(sep) - 1) = sep
                      /\ \A j \in 1..(k - 1) : SubSeq(hay, j, j + Len(sep) - 1) # sep
         IN SubSeq(hay, 1, i - 1)
    ELSE hay

\* x in list
InList(x, list) == \E i \in 1..Len(list) : list[i] = x

\* list.index(x), 0-based
ListIndex(x, list) ==
    (CHOOSE i \in 1..Len(list) : list[i] = x /\ \A j \in 1..(i - 1) : list[j] # x) - 1

RECURSIVE ConcatAll(_)
\* the concatenation of a list of lists (a loop of append / extend / +=)
ConcatAll(ss) == IF ss = <<>> THEN <<>> ELSE Head(ss) \o ConcatAll(Tail(ss))

RECURSIVE Join(_, _)
\* sep.join(list)
Join(list, sep) ==
    IF list = <<>> THEN ""
    ELSE IF Len(list) = 1 THEN list[1]
    ELSE list[1] \o sep \o Join(Tail(list), sep)

StrDigits == <<"0", "1", "2", "3", "4", "5", "6", "7", "8", "9">>

RECURSIVE Str(_)
\* str(n) for n >= 0
Str(n) == IF n < 10 THEN StrDigits[n + 1] ELSE Str(n \div 10) \o StrDigits[(n % 10) + 1]

\* "if not d" for a definition that is None or a string
Falsy(d) == d = <<>> \/ d[1] = ""

\* column.get('nullable', True)
GetNullable(column) == IF "nullable" \in DOMAIN column THEN column.nullable ELSE TRUE

\* 'default' in column
HasDefault(column) == "default" \in DOMAIN column

\* dict.keys() of a dict kept as its entries in insertion order
Keys(entries) == [i \in 1..Len(entries) |-> entries[i].name]

\* the set of the elements of a list
Range(list) == {list[i] : i \in 1..Len(list)}

\* all the orders in which a set can be iterated
Orders(S) == {p \in [1..Cardinality(S) -> S] : \A i, j \in 1..Cardinality(S) : p[i] = p[j] => i = j}

-----------------------------------------------------------------------------
(* db_analyzer.py: the findings *)

Rec(type, severity, object, message) ==
    [type |-> type, severity |-> severity, object |-> object, message |-> message]

\* NoPrimaryKey testing for a key of one column instead
NoPrimaryKeySingle(primary_keys) == Len(primary_keys) <= 1

\* not primary_keys
NoPrimaryKey(primary_keys) == primary_keys = <<>>

\* the findings of analyze_table_structure for one table
TableStructure(table_name, table_info) ==
    LET columns == table_info.columns
        primary_keys == table_info.primary_keys
        foreign_keys == table_info.foreign_keys
        pk == IF NoPrimaryKey(primary_keys)
              THEN <<Rec("primary_key", "high", table_name,
                         "Table '" \o table_name \o "' does not have a primary key. Consider adding one for better data integrity and performance.")>>
              ELSE <<>>
        col_default ==
            ConcatAll([i \in 1..Len(columns) |->
                IF ~GetNullable(columns[i]) /\ ~HasDefault(columns[i])
                THEN <<Rec("column_default", "medium", table_name \o "." \o columns[i].name,
                           "Non-nullable column '" \o columns[i].name \o "' in table '" \o table_name
                           \o "' has no default value. Consider adding a default value for easier data insertion.")>>
                ELSE <<>>])
        composite == IF Len(primary_keys) > 2
                     THEN <<Rec("composite_key", "low", table_name,
                                "Table '" \o table_name \o "' has a complex composite key with "
                                \o Str(Len(primary_keys))
                                \o " columns. Consider simplifying by using a surrogate key if appropriate.")>>
                     ELSE <<>>
        column_names == [i \in 1..Len(columns) |-> columns[i].name]
        naming == IF InList("id", column_names) /\ ~InList("id", primary_keys)
                  THEN <<Rec("naming_convention", "low", table_name \o ".id",
                             "Column 'id' in table '" \o table_name
                             \o "' is not a primary key. Consider renaming to avoid confusion.")>>
                  ELSE <<>>
        index ==
            ConcatAll([f \in 1..Len(foreign_keys) |->
                ConcatAll([c \in 1..Len(foreign_keys[f].constrained_columns) |->
                    LET col == foreign_keys[f].constrained_columns[c] IN
                    IF ~InList(col, primary_keys)
                    THEN <<Rec("index", "medium", table_name \o "." \o col,
                               "Consider adding an index on foreign key column '" \o col
                               \o "' in table '" \o table_name \o "' for better query performance.")>>
                    ELSE <<>>])])
    IN pk \o col_default \o composite \o naming \o index

analyze_table_structure(s) ==
    ConcatAll([i \in 1..Len(s.tables) |-> TableStructure(s.tables[i].name, s.tables[i])])

\* IsolatedTables with only the source tables taken as related
IsolatedTablesSourceOnly(s) ==
    Range(Keys(s.tables)) \ {s.relationships[i].source_table : i \in 1..Len(s.relationships)}

\* table_names - tables_with_relationships
IsolatedTables(s) ==
    Range(Keys(s.tables))
    \ UNION {{s.relationships[i].source_table, s.relationships[i].target_table} :
                 i \in 1..Len(s.relationships)}

\* RelationshipCount with the pair taken without its direction
RelationshipCountUnordered(rels, i) ==
    Cardinality({j \in 1..i :
        {rels[j].source_table, rels[j].target_table}
            = {rels[i].source_table, rels[i].target_table}})

\* relationship_counts[key] right after relationship i was counted
RelationshipCount(rels, i) ==
    Cardinality({j \in 1..i : /\ rels[j].source_table = rels[i].source_table
                              /\ rels[j].target_table = rels[i].target_table})

\* iso_order is the order in which Python iterates the set isolated_tables
analyze_relationships(s, iso_order) ==
    LET rels == s.relationships
        isolated ==
            [i \in 1..Len(iso_order) |->
                Rec("isolated_table", "medium", iso_order[i],
                    "Table '" \o iso_order[i]
                    \o "' has no relationships with other tables. This might indicate a design issue or an orphaned table.")]
        junction ==
            ConcatAll([i \in 1..Len(rels) |->
                IF RelationshipCount(rels, i) > 1
                THEN <<Rec("junction_table", "medium",
                           rels[i].source_table \o " - " \o rels[i].target_table,
                           "Tables '" \o rels[i].source_table \o "' and '" \o rels[i].target_table
                           \o "' have multiple relationships. Consider using a junction table for cleaner many-to-many relationship modeling.")>>
                ELSE <<>>])
    IN isolated \o junction

-----------------------------------------------------------------------------
(* networkx.DiGraph as the analyzer uses it: nodes and edges in insertion  *)
(* order, a node or an edge added twice is kept once                        *)

EmptyGraph == [nodes |-> <<>>, edges |-> <<>>]

\* G.add_node(n)
AddNode(G, n) == IF InList(n, G.nodes) THEN G ELSE [G EXCEPT !.nodes = Append(@, n)]

\* AddEdge of a multigraph: a second edge between the same nodes is kept
AddEdgeMulti(G, u, v) ==
    LET G2 == AddNode(AddNode(G, u), v) IN [G2 EXCEPT !.edges = Append(@, <<u, v>>)]

\* G.add_edge(u, v): adds the missing end points, then the edge
AddEdge(G, u, v) ==
    LET G2 == AddNode(AddNode(G, u), v)
    IN IF InList(<<u, v>>, G2.edges) THEN G2 ELSE [G2 EXCEPT !.edges = Append(@, <<u, v>>)]

RECURSIVE AddNodes(_, _)
AddNodes(G, names) ==
    IF names = <<>> THEN G ELSE AddNodes(AddNode(G, Head(names)), Tail(names))

RECURSIVE AddRelationshipEdges(_, _)
AddRelationshipEdges(G, rels) ==
    IF rels = <<>> THEN G
    ELSE AddRelationshipEdges(AddEdge(G, Head(rels).source_table, Head(rels).target_table),
                              Tail(rels))

\* the graph both analyze_dependency_cycles and get_database_metrics build
RelationshipGraph(s) == AddRelationshipEdges(AddNodes(EmptyGraph, Keys(s.tables)), s.relationships)

\* the successors of v in G, in insertion order, self-loops left out
Successors(G, v) ==
    LET out == SelectSeq(G.edges, LAMBDA e : e[1] = v /\ e[2] # v)
    IN [i \in 1..Len(out) |-> out[i][2]]

RECURSIVE CyclesFrom(_, _, _, _)
\* the elementary circuits that extend path back to start without entering
\* a node of removed
CyclesFrom(G, start, path, removed) ==
    LET succs == Successors(G, path[Len(path)])
    IN ConcatAll([k \in 1..Len(succs) |->
          IF succs[k] = start THEN <<path>>
          ELSE IF InList(succs[k], path) \/ succs[k] \in removed THEN <<>>
          ELSE CyclesFrom(G, start, Append(path, succs[k]), removed)])

\* nx.simple_cycles(G): first the self-loops, then, node after node, the
\* circuits through that node among the nodes not yet dealt with
SimpleCycles(G) ==
    LET n == Len(G.nodes)
        loops == ConcatAll([i \in 1..n |->
                     IF InList(<<G.nodes[i], G.nodes[i]>>, G.edges)
                     THEN <<(<<G.nodes[i]>>)>> ELSE <<>>])
        longer == ConcatAll([i \in 1..n |->
                     CyclesFrom(G, G.nodes[i], <<G.nodes[i]>>,
                                {G.nodes[j] : j \in 1..(i - 1)})])
    IN loops \o longer

ARROW == " → "

analyze_dependency_cycles(s) ==
    LET cycles == SimpleCycles(RelationshipGraph(s))
    IN [i \in 1..Len(cycles) |->
          LET cycle_str == Join(cycles[i], ARROW) IN
          Rec("dependency_cycle", "high", cycle_str,
              "Detected a dependency cycle: " \o cycle_str
              \o ". This may cause issues with referential integrity and data insertion. Consider redesigning the schema to eliminate this cycle.")]

-----------------------------------------------------------------------------
(* db_analyzer.py: the passes over routine and view texts *)

\* TransactionUnfinished asking for both words to be missing
TransactionUnfinishedNeither(proc_def) ==
    Contains(proc_def, "BEGIN TRANSACTION")
    /\ ~Contains(proc_def, "COMMIT") /\ ~Contains(proc_def, "ROLLBACK")

\* "BEGIN TRANSACTION" in proc_def and ("COMMIT" not in proc_def or
\* "ROLLBACK" not in proc_def)
TransactionUnfinished(proc_def) ==
    Contains(proc_def, "BEGIN TRANSACTION")
    /\ (~Contains(proc_def, "COMMIT") \/ ~Contains(proc_def, "ROLLBACK"))

ProcedureFindings(proc_name, d) ==
    IF Falsy(d) THEN <<>>
    ELSE LET proc_def == d[1] IN
       (IF Contains(proc_def, "EXEC(") \/ Contains(proc_def, "EXECUTE(")
           \/ Contains(proc_def, "sp_executesql")
        THEN <<Rec("security", "high", proc_name,
                   "Stored procedure '" \o proc_name
                   \o "' uses dynamic SQL execution, which could be vulnerable to SQL injection. Consider using parameterized queries.")>>
        ELSE <<>>)
       \o
       (IF Contains(proc_def, "SELECT *")
        THEN <<Rec("performance", "medium", proc_name,
                   "Stored procedure '" \o proc_name
                   \o "' uses 'SELECT *', which may retrieve unnecessary columns. Consider specifying only needed columns.")>>
        ELSE <<>>)
       \o
       (IF Contains(proc_def, "DECLARE CURSOR") \/ Contains(proc_def, "CURSOR FOR")
        THEN <<Rec("performance", "medium", proc_name,
                   "Stored procedure '" \o proc_name
                   \o "' uses cursors, which can be inefficient. Consider using set-based operations instead.")>>
        ELSE <<>>)
       \o
       (IF TransactionUnfinished(proc_def)
        THEN <<Rec("reliability", "high", proc_name,
                   "Stored procedure '" \o proc_name
                   \o "' begins a transaction but may not properly commit or rollback in all code paths. This could lead to open transactions or deadlocks.")>>
        ELSE <<>>)

analyze_stored_procedures(s) ==
    ConcatAll([i \in 1..Len(s.stored_procedures) |->
        ProcedureFindings(s.stored_procedures[i].name, s.stored_procedures[i].definition)])

FunctionFindings(func_name, d) ==
    IF Falsy(d) THEN <<>>
    ELSE LET func_def == d[1] IN
       (IF Contains(func_def, "SELECT *")
        THEN <<Rec("performance", "medium", func_name,
                   "Function '" \o func_name
                   \o "' uses 'SELECT *', which may retrieve unnecessary columns. Consider specifying only needed columns.")>>
        ELSE <<>>)
       \o
       (IF Contains(func_def, "DECLARE CURSOR") \/ Contains(func_def, "CURSOR FOR")
        THEN <<Rec("performance", "medium", func_name,
                   "Function '" \o func_name
                   \o "' uses cursors, which can be inefficient. Consider using set-based operations instead.")>>
        ELSE <<>>)
       \o
       (IF Contains(func_def, "INSERT") \/ Contains(func_def, "UPDATE")
           \/ Contains(func_def, "DELETE")
        THEN <<Rec("design", "high", func_name,
                   "Function '" \o func_name
                   \o "' appears to modify data. This is generally considered an anti-pattern. Consider using a stored procedure instead.")>>
        ELSE <<>>)

analyze_functions(s) ==
    ConcatAll([i \in 1..Len(s.functions) |->
        FunctionFindings(s.functions[i].name, s.functions[i].definition)])

ViewFindings(view_name, d) ==
    IF Falsy(d) THEN <<>>
    ELSE LET view_def == d[1] IN
       (IF Contains(view_def, "SELECT *")
        THEN <<Rec("performance", "medium", view_name,
                   "View '" \o view_name
                   \o "' uses 'SELECT *', which may retrieve unnecessary columns. Consider specifying only needed columns.")>>
        ELSE <<>>)
       \o
       (IF Contains(view_def, "SELECT ") /\ Contains(view_def, "(")
           /\ Contains(SplitFirst(view_def, "FROM"), "SELECT")
        THEN <<Rec("performance", "low", view_name,
                   "View '" \o view_name
                   \o "' may contain subqueries in the SELECT clause, which can impact performance. Consider restructuring if possible.")>>
        ELSE <<>>)

analyze_views(s) ==
    ConcatAll([i \in 1..Len(s.views) |-> ViewFindings(s.views[i].name, s.views[i].definition)])

-----------------------------------------------------------------------------
(* db_analyzer.py: analyze_database *)

\* severity_order[x['severity']]
SeverityKey(x) ==
    CASE x.severity = "high" -> 0
      [] x.severity = "medium" -> 1
      [] x.severity = "low" -> 2

\* InsertByKey with x put in front of the elements of equal key
InsertByKeyUnstable(sorted, x) ==
    LET k == Cardinality({i \in 1..Len(sorted) : SeverityKey(sorted[i]) < SeverityKey(x)})
    IN SubSeq(sorted, 1, k) \o <<x>> \o SubSeq(sorted, k + 1, Len(sorted))

\* one step of the sort: x goes behind the elements whose key is not larger
InsertByKey(sorted, x) ==
    LET k == Cardinality({i \in 1..Len(sorted) : SeverityKey(sorted[i]) <= SeverityKey(x)})
    IN SubSeq(sorted, 1, k) \o <<x>> \o SubSeq(sorted, k + 1, Len(sorted))

RECURSIVE SortBySeverity(_)
\* list.sort(key=...): Python's sort is stable
SortBySeverity(list) ==
    IF list = <<>> THEN <<>>
    ELSE InsertByKey(SortBySeverity(SubSeq(list, 1, Len(list) - 1)), list[Len(list)])

\* all_recommendations after the six extend() calls
AllRecommendations(s, iso_order) ==
    analyze_table_structure(s)
    \o analyze_relationships(s, iso_order)
    \o analyze_dependency_cycles(s)
    \o analyze_stored_procedures(s)
    \o analyze_functions(s)
    \o analyze_views(s)

-----------------------------------------------------------------------------
(* db_analyzer.py: the exceptions.  Each operator gives the exceptions the *)
(* statements of a function would raise, in the order of the statements;   *)
(* the first one ends the function.  A value that is neither None nor a    *)
(* str is a sequence of length 2: the value and the name of its type.      *)

\* d[key]
KeyError(d, key) == IF key \in DOMAIN d THEN <<>> ELSE <<"KeyError">>

\* list[i], i >= 0
IndexError(list, i) == IF i < Len(list) THEN <<>> ELSE <<"IndexError">>

\* "text" in d, for a d that is not None
TypeError(d) == IF Len(d) = 1 THEN <<>> ELSE <<"TypeError">>

\* the exception that ends the function, if any
FirstOf(errors) == IF errors = <<>> THEN <<>> ELSE <<errors[1]>>

\* the body of the loop of analyze_table_structure
TableStructureRaised(table_info) ==
    LET keys == KeyError(table_info, "columns") \o KeyError(table_info, "primary_keys")
                \o KeyError(table_info, "foreign_keys")
    IN IF keys # <<>> THEN keys
       ELSE ConcatAll([c \in 1..Len(table_info.columns) |->
                KeyError(table_info.columns[c], "name")])
            \o ConcatAll([f \in 1..Len(table_info.foreign_keys) |->
                KeyError(table_info.foreign_keys[f], "constrained_columns")])

analyze_table_structure_raised(s) ==
    FirstOf(ConcatAll([i \in 1..Len(s.tables) |-> TableStructureRaised(s.tables[i])]))

\* rel['source_table'], rel['target_table'] for every relationship
RelationshipKeysRaised(s) ==
    ConcatAll([i \in 1..Len(s.relationships) |->
        KeyError(s.relationships[i], "source_table")
        \o KeyError(s.relationships[i], "target_table")])

analyze_relationships_raised(s) == FirstOf(RelationshipKeysRaised(s))

\* nx.simple_cycles(G) raises nothing: a graph without a cycle has the empty
\* list of cycles
SimpleCyclesRaised(G) == <<>>

\* try: ... except nx.NetworkXNoCycle: pass
analyze_dependency_cycles_raised(s) ==
    LET keys == RelationshipKeysRaised(s)
    IN IF keys # <<>> THEN FirstOf(keys)
       ELSE FirstOf(SelectSeq(SimpleCyclesRaised(RelationshipGraph(s)),
                              LAMBDA e : e # "NetworkXNoCycle"))

\* DefinitionRaised without "if not d: continue"
DefinitionRaisedUnguarded(d) == TypeError(d)

\* the body of the loops over routine and view texts: "if not d: continue",
\* then the substring tests
DefinitionRaised(d) == IF Falsy(d) THEN <<>> ELSE TypeError(d)

analyze_stored_procedures_raised(s) ==
    FirstOf(ConcatAll([i \in 1..Len(s.stored_procedures) |->
        DefinitionRaised(s.stored_procedures[i].definition)]))

analyze_functions_raised(s) ==
    FirstOf(ConcatAll([i \in 1..Len(s.functions) |->
        DefinitionRaised(s.functions[i].definition)]))

analyze_views_raised(s) ==
    FirstOf(ConcatAll([i \in 1..Len(s.views) |-> DefinitionRaised(s.views[i].definition)]))

\* analyze_database has no try: the first exception of a pass leaves it
analyze_database_raised(s) ==
    FirstOf(analyze_table_structure_raised(s)
            \o analyze_relationships_raised(s)
            \o analyze_dependency_cycles_raised(s)
            \o analyze_stored_procedures_raised(s)
            \o analyze_functions_raised(s)
            \o analyze_views_raised(s))

-----------------------------------------------------------------------------
(* db_analyzer.py: get_database_metrics *)

\* a Python float kept as an exact quotient
Quot(num, den) == [num |-> num, den |-> den]

\* OrOne without the "or 1"
OrOneMissing(n) == n

\* len(G) or 1
OrOne(n) == IF n = 0 THEN 1 ELSE n

RECURSIVE Sum(_)
Sum(list) == IF list = <<>> THEN 0 ELSE Head(list) + Sum(Tail(list))

\* dict(G.in_degree()).values()
InDegrees(G) ==
    [i \in 1..Len(G.nodes) |-> Len(SelectSeq(G.edges, LAMBDA e : e[2] = G.nodes[i]))]

\* dict(G.out_degree()).values()
OutDegrees(G) ==
    [i \in 1..Len(G.nodes) |-> Len(SelectSeq(G.edges, LAMBDA e : e[1] = G.nodes[i]))]

\* nx.density(G) of a directed graph
Density(G) ==
    LET n == Len(G.nodes)
        m == Len(G.edges)
    IN IF m = 0 \/ n <= 1 THEN Quot(0, 1) ELSE Quot(m, n * (n - 1))

RECURSIVE ComponentDirected(_, _)
\* Component with the edges taken in their own direction only
ComponentDirected(G, S) ==
    LET T == S \cup {e[2] : e \in {x \in Range(G.edges) : x[1] \in S}}
    IN IF T = S THEN S ELSE ComponentDirected(G, T)

RECURSIVE Component(_, _)
\* the nodes joined to S by edges taken in either direction
Component(G, S) ==
    LET T == S \cup {e[2] : e \in {x \in Range(G.edges) : x[1] \in S}}
               \cup {e[1] : e \in {x \in Range(G.edges) : x[2] \in S}}
    IN IF T = S THEN S ELSE Component(G, T)

\* nx.number_connected_components(G.to_undirected())
NumberConnectedComponents(G) == Cardinality({Component(G, {n}) : n \in Range(G.nodes)})

\* the try block: raised is TRUE when a division by zero ends it
TryGraphMetrics(G) ==
    LET d == OrOne(Len(G.nodes)) IN
    IF d = 0 THEN [raised |-> TRUE]
    ELSE [raised |-> FALSE,
          avg_in_degree |-> Quot(Sum(InDegrees(G)), d),
          avg_out_degree |-> Quot(Sum(OutDegrees(G)), d),
          density |-> Density(G),
          connected_components |->
              IF Len(G.nodes) > 0 THEN NumberConnectedComponents(G) ELSE 0]

\* the dict returned, and what was printed
get_database_metrics(s) ==
    LET counts ==
          [table_count |-> Len(s.tables),
           view_count |-> Len(s.views),
           stored_procedure_count |-> Len(s.stored_procedures),
           function_count |-> Len(s.functions),
           relationship_count |-> Len(s.relationships),
           total_columns |-> Sum([i \in 1..Len(s.tables) |-> Len(s.tables[i].columns)]),
           primary_key_count |-> Sum([i \in 1..Len(s.tables) |-> Len(s.tables[i].primary_keys)]),
           foreign_key_count |->
               Sum([i \in 1..Len(s.tables) |->
                   Sum([f \in 1..Len(s.tables[i].foreign_keys) |->
                       Len(s.tables[i].foreign_keys[f].constrained_columns)])]),
           nullable_column_count |->
               Sum([i \in 1..Len(s.tables) |->
                   Len(SelectSeq(s.tables[i].columns, GetNullable))])]
        try == TryGraphMetrics(RelationshipGraph(s))
    IN IF try.raised
       THEN [metrics |-> [avg_in_degree |-> Quot(0, 1), avg_out_degree |-> Quot(0, 1),
                          density |-> Quot(0, 1), connected_components |-> 0] @@ counts,
             printed |-> <<"Error calculating graph metrics: division by zero">>]
       ELSE [metrics |-> [avg_in_degree |-> try.avg_in_degree,
                          avg_out_degree |-> try.avg_out_degree,
                          density |-> try.density,
                          connected_components |-> try.connected_components] @@ counts,
             printed |-> <<>>]

-----------------------------------------------------------------------------
(* download/db_schema_extractor.py: the schemas get_full_schema builds *)

\* get_relationships: one relationship per foreign key, table after table
get_relationships(tables) ==
    ConcatAll([i \in 1..Len(tables) |->
        [f \in 1..Len(tables[i].foreign_keys) |->
            [source_table |-> tables[i].name,
             source_columns |-> tables[i].foreign_keys[f].constrained_columns,
             target_table |-> tables[i].foreign_keys[f].referred_table,
             target_columns |-> tables[i].foreign_keys[f].referred_columns,
             name |-> tables[i].foreign_keys[f].name]]])

get_full_schema(tables, views, stored_procedures, functions) ==
    [tables |-> tables,
     views |-> views,
     relationships |-> get_relationships(tables),
     stored_procedures |-> stored_procedures,
     functions |-> functions]

EmptySchema == get_full_schema(<<>>, <<>>, <<>>, <<>>)

\* the table names of the analyzed databases
TableNames == <<"A", "B", "C">>

\* columns and primary keys of the analyzed tables: a keyed table, a table
\* without a key, a table with a three-column key that holds the reference
TableShapes ==
    <<[columns |-> <<[name |-> "id", type |-> "int", nullable |-> FALSE, default |-> "0"],
                     [name |-> "ref", type |-> "int", nullable |-> TRUE]>>,
       primary_keys |-> <<"id">>],
      [columns |-> <<[name |-> "id", type |-> "int", nullable |-> TRUE],
                     [name |-> "ref", type |-> "int", nullable |-> TRUE]>>,
       primary_keys |-> <<>>],
      [columns |-> <<[name |-> "a", type |-> "int", nullable |-> FALSE],
                     [name |-> "b", type |-> "int"],
                     [name |-> "ref", type |-> "int", nullable |-> FALSE, default |-> "1"]>>,
       primary_keys |-> <<"a", "b", "ref">>]>>

\* the foreign keys of n tables: links[k] = <<i, j>> is a key of table i that
\* refers to table j; a table's keys are together, as inspection returns them
LinkLists(n, max) ==
    UNION {{l \in [1..k -> (1..n) \X (1..n)] :
               \A a, b \in 1..k : a < b => l[a][1] <= l[b][1]} : k \in 0..max}

ForeignKey(i, j) ==
    [name |-> "FK_" \o TableNames[i] \o "_" \o TableNames[j],
     constrained_columns |-> <<"ref">>,
     referred_table |-> TableNames[j],
     referred_columns |-> <<"id">>]

Tables(n, shape, links) ==
    [i \in 1..n |->
        [name |-> TableNames[i],
         columns |-> TableShapes[shape[i]].columns,
         primary_keys |-> TableShapes[shape[i]].primary_keys,
         foreign_keys |->
             LET mine == SelectSeq(links, LAMBDA l : l[1] = i)
             IN [f \in 1..Len(mine) |-> ForeignKey(i, mine[f][2])]]]

\* keyed tables, every arrangement of at most MaxRels foreign keys
GraphSchemas ==
    UNION {{get_full_schema(Tables(n, [i \in 1..n |-> 1], l), <<>>, <<>>, <<>>) :
               l \in LinkLists(n, MaxRels)} : n \in 0..Len(TableNames)}

\* tables of every shape, at most one foreign key
ShapeSchemas ==
    UNION {{get_full_schema(Tables(n, x[1], x[2]), <<>>, <<>>, <<>>) :
               x \in [1..n -> 1..Len(TableShapes)] \X LinkLists(n, 1)} :
           n \in 1..Len(TableNames)}

\* ROUTINE_DEFINITION of a procedure: NULL, or text
ProcedureDefinitions ==
    {<<>>, <<"">>,
     <<"SELECT * FROM [A] ; EXEC(@q)">>,
     <<"BEGIN TRANSACTION UPDATE A SET ref = 1 COMMIT">>,
     <<"BEGIN TRANSACTION DELETE FROM B COMMIT ROLLBACK">>,
     <<"BEGIN TRANSACTION DELETE FROM B ROLLBACK">>,
     <<"begin transaction UPDATE A SET ref = 1">>,
     <<"UPDATE A SET ref = 1 COMMIT">>,
     <<"DECLARE c CURSOR FOR SELECT id FROM A ">>}

FunctionDefinitions ==
    {<<>>,
     <<"RETURN (SELECT COUNT(id) FROM B )">>,
     <<"SELECT * FROM A ; INSERT INTO B VALUES (1)">>}

ViewDefinitions ==
    {<<>>, <<"">>,
     <<"SELECT * FROM A ">>,
     <<"SELECT id, (SELECT 1) FROM [B]">>,
     <<"SELECT id FROM A WHERE id IN (1, 2)">>}

\* a dict with no entry, or with the one entry name: d
Dicts(name, definitions) == {<<>>} \cup {<<[name |-> name, definition |-> d]>> : d \in definitions}

\* a table without a key and a keyed one that refer to each other, with at
\* most one procedure, one function and one view
RoutineSchemas ==
    {get_full_schema(Tables(2, <<2, 1>>, <<(<<1, 2>>), (<<2, 1>>)>>), x[1], x[2], x[3]) :
        x \in Dicts("v", ViewDefinitions) \X Dicts("p", ProcedureDefinitions)
              \X Dicts("f", FunctionDefinitions)}

AnalyzedSchemas == GraphSchemas \cup ShapeSchemas \cup RoutineSchemas

-----------------------------------------------------------------------------
(* The analyzer as a state machine: a schema, then any calls on it *)

NoMetrics == [table_count |-> -1]

\* st.session_state before a database is connected: every key is None
NoSession == [sql_engine |-> <<>>, db_schema |-> <<>>, recommendations |-> <<>>, code_files |-> <<>>]

\* the values the text inputs of the code tab start with
DefaultOptions == [namespace |-> "YourNamespace", context_name |-> "ApplicationDbContext"]

\* a run of the page that displays neither findings nor code
NothingDisplayed == [recommendations |-> <<>>, code_files |-> <<>>]

Init ==
    /\ schema \in AnalyzedSchemas
    /\ done = {}
    /\ all_unsorted = <<>>
    /\ recommendations = <<>>
    /\ metrics = NoMetrics
    /\ printed = <<>>
    /\ code_files = <<>>
    /\ prev_code_files = <<>>
    /\ ident_in = ""
    /\ ident_out = <<>>
    /\ raised = {}
    /\ type_in = ""
    /\ type_out = <<>>
    /\ dependency_graph = <<>>
    /\ uml = <<>>
    /\ session_state = NoSession
    /\ ef_options = DefaultOptions
    /\ displayed = NothingDisplayed

\* an exception that left the function named
Raised(function, errors) == {[function |-> function, exception |-> errors[i]] : i \in 1..Len(errors)}

\* recommendations = analyze_database(schema), or the exception it raised
AnalyzeDatabase ==
    /\ IF analyze_database_raised(schema) = <<>>
       THEN /\ \E iso_order \in Orders(IsolatedTables(schema)) :
                  /\ all_unsorted' = AllRecommendations(schema, iso_order)
                  /\ recommendations' = SortBySeverity(AllRecommendations(schema, iso_order))
            /\ done' = done \cup {"analyze"}
            /\ UNCHANGED raised
       ELSE /\ raised' = raised \cup Raised("analyze_database", analyze_database_raised(schema))
            /\ UNCHANGED <<all_unsorted, recommendations, done>>
    /\ UNCHANGED <<app_vars, schema, metrics, printed, code_files, prev_code_files, ident_in, ident_out,
                   type_in, type_out, dependency_graph, uml>>

\* get_database_metrics taking the relationships off the list of the schema
\* as it counts them ("while relationships: relationships.pop()")
GetDatabaseMetricsConsuming ==
    /\ metrics' = get_database_metrics(schema).metrics
    /\ printed' = printed \o get_database_metrics(schema).printed
    /\ done' = done \cup {"metrics"}
    /\ schema' = [schema EXCEPT !.relationships = <<>>]
    /\ UNCHANGED <<app_vars, all_unsorted, recommendations, code_files, prev_code_files,
                   ident_in, ident_out,
                   raised, type_in, type_out, dependency_graph, uml>>

\* metrics = get_database_metrics(schema)
GetDatabaseMetrics ==
    /\ metrics' = get_database_metrics(schema).metrics
    /\ printed' = printed \o get_database_metrics(schema).printed
    /\ done' = done \cup {"metrics"}
    /\ UNCHANGED <<app_vars, schema, all_unsorted, recommendations, code_files, prev_code_files,
                   ident_in, ident_out,
                   raised, type_in, type_out, dependency_graph, uml>>

Next == AnalyzeDatabase \/ GetDatabaseMetrics

Spec == Init /\ [][Next]_vars

-----------------------------------------------------------------------------
(* The analyzer on schemas that hold a definition it cannot read *)

\* a ROUTINE_DEFINITION that arrives as bytes instead of str
UnreadableDefinition == <<"SELECT * FROM A ", "bytes">>

\* the schemas of RoutineSchemas, any of the definitions possibly unreadable
UnreadableSchemas ==
    {get_full_schema(Tables(2, <<2, 1>>, <<(<<1, 2>>), (<<2, 1>>)>>), x[1], x[2], x[3]) :
        x \in Dicts("v", ViewDefinitions \cup {UnreadableDefinition})
              \X Dicts("p", ProcedureDefinitions \cup {UnreadableDefinition})
              \X Dicts("f", FunctionDefinitions \cup {UnreadableDefinition})}

InitFail ==
    /\ schema \in UnreadableSchemas
    /\ done = {}
    /\ all_unsorted = <<>>
    /\ recommendations = <<>>
    /\ metrics = NoMetrics
    /\ printed = <<>>
    /\ code_files = <<>>
    /\ prev_code_files = <<>>
    /\ ident_in = ""
    /\ ident_out = <<>>
    /\ raised = {}
    /\ type_in = ""
    /\ type_out = <<>>
    /\ dependency_graph = <<>>
    /\ uml = <<>>
    /\ session_state = NoSession
    /\ ef_options = DefaultOptions
    /\ displayed = NothingDisplayed

NextFail == AnalyzeDatabase

SpecFail == InitFail /\ [][NextFail]_vars

-----------------------------------------------------------------------------
(* download/db_schema_extractor.py: create_dependency_graph.  The DiGraph  *)
(* has a 'type' attribute on its nodes and edges: a node is (name, type),   *)
(* an edge is (source, target, type); adding a node or an edge that is      *)
(* there already sets its type again.                                       *)

\* the attribute of a node that add_edge created
NoType == ""

HasNode(G, n) == \E i \in 1..Len(G.nodes) : G.nodes[i].name = n

\* G.add_node(n, type=type)
TypedAddNode(G, n, type) ==
    IF HasNode(G, n)
    THEN [G EXCEPT !.nodes = [i \in 1..Len(G.nodes) |->
              IF G.nodes[i].name = n THEN [name |-> n, type |-> type] ELSE G.nodes[i]]]
    ELSE [G EXCEPT !.nodes = Append(@, [name |-> n, type |-> type])]

\* the end point of an edge: created without a type when it is missing
ImpliedNode(G, n) ==
    IF HasNode(G, n) THEN G ELSE [G EXCEPT !.nodes = Append(@, [name |-> n, type |-> NoType])]

\* G.add_edge(u, v, type=type)
TypedAddEdge(G, u, v, type) ==
    LET G2 == ImpliedNode(ImpliedNode(G, u), v)
        e == [source |-> u, target |-> v, type |-> type]
    IN IF \E i \in 1..Len(G2.edges) : G2.edges[i].source = u /\ G2.edges[i].target = v
       THEN [G2 EXCEPT !.edges = [i \in 1..Len(G2.edges) |->
                IF G2.edges[i].source = u /\ G2.edges[i].target = v THEN e
                ELSE G2.edges[i]]]
       ELSE [G2 EXCEPT !.edges = Append(@, e)]

RECURSIVE TypedAddNodes(_, _, _)
\* for name in names: G.add_node(name, type=type)
TypedAddNodes(G, names, type) ==
    IF names = <<>> THEN G
    ELSE TypedAddNodes(TypedAddNode(G, Head(names), type), Tail(names), type)

RECURSIVE AddForeignKeyEdges(_, _)
\* for relationship in schema['relationships']: G.add_edge(source, target, type='foreign_key')
AddForeignKeyEdges(G, rels) ==
    IF rels = <<>> THEN G
    ELSE AddForeignKeyEdges(
             TypedAddEdge(G, Head(rels).source_table, Head(rels).target_table, "foreign_key"),
             Tail(rels))

\* Mentions by the name alone, wherever it occurs in the text
MentionsUnpadded(table_name, text) == Contains(text, table_name)

\* f" {table_name} " in text or f"[{table_name}]" in text
Mentions(table_name, text) ==
    \/ Contains(text, " " \o table_name \o " ")
    \/ Contains(text, "[" \o table_name \o "]")

RECURSIVE AddMentionEdges(_, _, _, _, _)
\* for table_name in schema['tables'].keys(): if it is mentioned, add the edge
AddMentionEdges(G, name, text, table_names, edge_type) ==
    IF table_names = <<>> THEN G
    ELSE AddMentionEdges(
             IF Mentions(Head(table_names), text)
             THEN TypedAddEdge(G, name, Head(table_names), edge_type) ELSE G,
             name, text, Tail(table_names), edge_type)

RECURSIVE AddDependencies(_, _, _, _, _)
\* one of the three loops over definitions; node_type is <<>> for the views,
\* whose nodes the loop does not add
AddDependencies(G, entries, table_names, node_type, edge_type) ==
    IF entries = <<>> THEN G
    ELSE LET d == Head(entries).definition
             G2 == IF Falsy(d) THEN G
                   ELSE AddMentionEdges(
                            IF node_type = <<>> THEN G
                            ELSE TypedAddNode(G, Head(entries).name, node_type[1]),
                            Head(entries).name, d[1], table_names, edge_type)
         IN AddDependencies(G2, Tail(entries), table_names, node_type, edge_type)

create_dependency_graph(s) ==
    LET G1 == TypedAddNodes(EmptyGraph, Keys(s.tables), "table")
        G2 == TypedAddNodes(G1, Keys(s.views), "view")
        G3 == AddForeignKeyEdges(G2, s.relationships)
        G4 == AddDependencies(G3, s.views, Keys(s.tables), <<>>, "view_dependency")
        G5 == AddDependencies(G4, s.stored_procedures, Keys(s.tables),
                              <<"stored_procedure">>, "proc_dependency")
    IN AddDependencies(G5, s.functions, Keys(s.tables), <<"function">>, "func_dependency")

\* the substring tests of one definition: none when it is skipped or when
\* there is no table to look for
DependencyRaised(d, table_names) ==
    IF Falsy(d) \/ table_names = <<>> THEN <<>> ELSE TypeError(d)

create_dependency_graph_raised(s) ==
    FirstOf(RelationshipKeysRaised(s)
            \o ConcatAll([i \in 1..Len(s.views) |->
                   DependencyRaised(s.views[i].definition, Keys(s.tables))])
            \o ConcatAll([i \in 1..Len(s.stored_procedures) |->
                   DependencyRaised(s.stored_procedures[i].definition, Keys(s.tables))])
            \o ConcatAll([i \in 1..Len(s.functions) |->
                   DependencyRaised(s.functions[i].definition, Keys(s.tables))]))

-----------------------------------------------------------------------------
(* uml_generator.py: generate_database_uml.  The pydot graph is the list   *)
(* of the nodes added and the list of the edges added, each in the order   *)
(* of the calls; a node is (name, kind), the kind naming the create_*_uml  *)
(* function that drew its label; an edge is (source, target, style,        *)
(* label), the style naming the entry of RELATIONSHIP_STYLES it is drawn   *)
(* with.                                                                   *)

\* if include: for name in names: graph.add_node(pydot.Node(name, label=...))
DotNodes(include, names, kind) ==
    IF include THEN [i \in 1..Len(names) |-> [name |-> names[i], kind |-> kind]] ELSE <<>>

\* DotForeignKeyEdges without the test of include_tables
DotForeignKeyEdgesAlways(rels, include_tables) ==
    [i \in 1..Len(rels) |->
        [source |-> rels[i].source_table, target |-> rels[i].target_table,
         style |-> "foreign_key",
         label |-> rels[i].source_columns[1] \o ARROW \o rels[i].target_columns[1]]]

\* for rel in schema['relationships']: if include_tables: graph.add_edge(...)
DotForeignKeyEdges(rels, include_tables) ==
    IF include_tables
    THEN [i \in 1..Len(rels) |->
            [source |-> rels[i].source_table, target |-> rels[i].target_table,
             style |-> "foreign_key",
             label |-> rels[i].source_columns[1] \o ARROW \o rels[i].target_columns[1]]]
    ELSE <<>>

\* one of the three loops over definitions
DotDependencyEdges(entries, table_names, include, include_tables, style) ==
    ConcatAll([i \in 1..Len(entries) |->
        IF include /\ ~Falsy(entries[i].definition)
        THEN ConcatAll([t \in 1..Len(table_names) |->
                 IF include_tables /\ Mentions(table_names[t], entries[i].definition[1])
                 THEN <<[source |-> entries[i].name, target |-> table_names[t],
                         style |-> style, label |-> ""]>>
                 ELSE <<>>])
        ELSE <<>>])

generate_database_uml(s, include_tables, include_views, include_procedures, include_functions) ==
    [nodes |-> DotNodes(include_tables, Keys(s.tables), "table")
               \o DotNodes(include_views, Keys(s.views), "view")
               \o DotNodes(include_procedures, Keys(s.stored_procedures), "stored_procedure")
               \o DotNodes(include_functions, Keys(s.functions), "function"),
     edges |-> DotForeignKeyEdges(s.relationships, include_tables)
               \o DotDependencyEdges(s.views, Keys(s.tables), include_views,
                                     include_tables, "view_dependency")
               \o DotDependencyEdges(s.stored_procedures, Keys(s.tables), include_procedures,
                                     include_tables, "proc_dependency")
               \o DotDependencyEdges(s.functions, Keys(s.tables), include_functions,
                                     include_tables, "func_dependency")]

\* the substring tests of one definition in generate_database_uml
DotDependencyRaised(d, table_names, include, include_tables) ==
    IF include /\ ~Falsy(d) /\ include_tables /\ table_names # <<>> THEN TypeError(d) ELSE <<>>

\* the label of a relationship edge: rel['source_columns'][0], rel['target_columns'][0]
DotForeignKeyRaised(rel) ==
    LET keys == KeyError(rel, "source_table") \o KeyError(rel, "target_table")
                \o KeyError(rel, "source_columns") \o KeyError(rel, "target_columns")
    IN IF keys # <<>> THEN keys
       ELSE IndexError(rel.source_columns, 0) \o IndexError(rel.target_columns, 0)

generate_database_uml_raised(s, include_tables, include_views, include_procedures, include_functions) ==
    FirstOf((IF include_tables
             THEN ConcatAll([i \in 1..Len(s.relationships) |->
                      DotForeignKeyRaised(s.relationships[i])])
             ELSE <<>>)
            \o ConcatAll([i \in 1..Len(s.views) |->
                   DotDependencyRaised(s.views[i].definition, Keys(s.tables),
                                       include_views, include_tables)])
            \o ConcatAll([i \in 1..Len(s.stored_procedures) |->
                   DotDependencyRaised(s.stored_procedures[i].definition, Keys(s.tables),
                                       include_procedures, include_tables)])
            \o ConcatAll([i \in 1..Len(s.functions) |->
                   DotDependencyRaised(s.functions[i].definition, Keys(s.tables),
                                       include_functions, include_tables)]))

-----------------------------------------------------------------------------
(* The dependency graph and the diagram as a state machine: a schema, then *)
(* any calls on it                                                          *)

\* VIEW_DEFINITION of a view: NULL, empty, or text that names tables padded,
\* bracketed, in another case or inside another identifier
DependentViews ==
    {<<>>, <<"">>,
     <<"SELECT * FROM A ">>,
     <<"SELECT id FROM [B]">>,
     <<"select id from a WHERE A1 = 1">>}

DependentProcedures ==
    {<<>>, <<"">>,
     <<"UPDATE A SET ref = 1 ; DELETE FROM [B]">>,
     <<"EXEC(@sql) -- reads AB">>}

DependentFunctions ==
    {<<>>,
     <<"RETURN (SELECT COUNT(id) FROM B )">>,
     <<"RETURN [A].id + BA">>}

\* two keyed tables with every arrangement of at most MaxRels foreign keys
\* and no other object; no table at all; the tables A and B joined by one
\* foreign key, with at most one view, one procedure and one function
DependencySchemas ==
    {get_full_schema(Tables(2, <<1, 1>>, l), <<>>, <<>>, <<>>) : l \in LinkLists(2, MaxRels)}
    \cup {EmptySchema}
    \cup {get_full_schema(Tables(2, <<1, 1>>, <<(<<1, 2>>)>>), x[1], x[2], x[3]) :
             x \in Dicts("v", DependentViews) \X Dicts("p", DependentProcedures)
                   \X Dicts("f", DependentFunctions)}

InitGraph ==
    /\ schema \in DependencySchemas
    /\ done = {}
    /\ all_unsorted = <<>>
    /\ recommendations = <<>>
    /\ metrics = NoMetrics
    /\ printed = <<>>
    /\ code_files = <<>>
    /\ prev_code_files = <<>>
    /\ ident_in = ""
    /\ ident_out = <<>>
    /\ raised = {}
    /\ type_in = ""
    /\ type_out = <<>>
    /\ dependency_graph = <<>>
    /\ uml = <<>>
    /\ session_state = NoSession
    /\ ef_options = DefaultOptions
    /\ displayed = NothingDisplayed

\* dependency_graph = create_dependency_graph(schema), or the exception it raised
CreateDependencyGraph ==
    /\ IF create_dependency_graph_raised(schema) = <<>>
       THEN /\ dependency_graph' = create_dependency_graph(schema)
            /\ done' = done \cup {"graph"}
            /\ UNCHANGED raised
       ELSE /\ raised' = raised \cup Raised("create_dependency_graph",
                                           create_dependency_graph_raised(schema))
            /\ UNCHANGED <<dependency_graph, done>>
    /\ UNCHANGED <<app_vars, schema, all_unsorted, recommendations, metrics, printed, code_files,
                   prev_code_files, ident_in, ident_out, type_in, type_out, uml>>

\* the four inclusion flags
Flags == [{"tables", "views", "procedures", "functions"} -> BOOLEAN]

\* uml = generate_database_uml(schema, ...) with any flags, or the exception
\* it raised
GenerateDatabaseUml ==
    /\ \E f \in Flags :
          IF generate_database_uml_raised(schema, f["tables"], f["views"], f["procedures"],
                                          f["functions"]) = <<>>
          THEN /\ uml' = [flags |-> f,
                          graph |-> generate_database_uml(schema, f["tables"], f["views"],
                                                          f["procedures"], f["functions"])]
               /\ done' = done \cup {"uml"}
               /\ UNCHANGED raised
          ELSE /\ raised' = raised \cup Raised("generate_database_uml",
                     generate_database_uml_raised(schema, f["tables"], f["views"],
                                                  f["procedures"], f["functions"]))
               /\ UNCHANGED <<uml, done>>
    /\ UNCHANGED <<app_vars, schema, all_unsorted, recommendations, metrics, printed, code_files,
                   prev_code_files, ident_in, ident_out, type_in, type_out, dependency_graph>>

NextGraph == AnalyzeDatabase \/ CreateDependencyGraph \/ GenerateDatabaseUml

SpecGraph == InitGraph /\ [][NextGraph]_vars

-----------------------------------------------------------------------------
(* download/ef_code_generator.py: identifiers and types *)

LowerLetters == "abcdefghijklmnopqrstuvwxyz"

UpperLetters == "ABCDEFGHIJKLMNOPQRSTUVWXYZ"

DigitChars == "0123456789"

\* s[i - 1], the i-th character
Char(s, i) == SubSeq(s, i, i)

\* s[i - 1:]
From(s, i) == SubSeq(s, i, Len(s))

IndexOf(c, s) == CHOOSE i \in 1..Len(s) : Char(s, i) = c

\* the characters of a string
Chars(s) == {Char(s, i) : i \in 1..Len(s)}

\* str.upper() on the lower-case letters
UpperOf == [c \in Chars(LowerLetters) |-> Char(UpperLetters, IndexOf(c, LowerLetters))]

\* str.lower() on the upper-case letters
LowerOf == [c \in Chars(UpperLetters) |-> Char(LowerLetters, IndexOf(c, UpperLetters))]

\* the characters [a-zA-Z0-9]
Alphanumerics == Chars(LowerLetters) \cup Chars(UpperLetters) \cup Chars(DigitChars)

\* c.upper() for one character
UpperChar(c) == IF c \in DOMAIN UpperOf THEN UpperOf[c] ELSE c

\* c.lower() for one character
LowerChar(c) == IF c \in DOMAIN LowerOf THEN LowerOf[c] ELSE c

RECURSIVE LowerStr(_)
\* s.lower()
LowerStr(s) == IF s = "" THEN "" ELSE LowerChar(Char(s, 1)) \o LowerStr(From(s, 2))

\* word.capitalize(): the first character upper-cased, the others lower-cased
Capitalize(word) ==
    IF word = "" THEN "" ELSE UpperChar(Char(word, 1)) \o LowerStr(From(word, 2))

\* c is matched by [^a-zA-Z0-9]|_
IsSeparator(c) == c \notin Alphanumerics

RECURSIVE SplitWords(_, _, _)
\* re.split(r'[^a-zA-Z0-9]|_', name): from character i on, cur being the
\* word read so far
SplitWords(name, i, cur) ==
    IF i > Len(name) THEN <<cur>>
    ELSE IF IsSeparator(Char(name, i)) THEN <<cur>> \o SplitWords(name, i + 1, "")
    ELSE SplitWords(name, i + 1, cur \o Char(name, i))

pascal_case(name) ==
    LET words == SelectSeq(SplitWords(name, 1, ""), LAMBDA word : word # "")
    IN Join([i \in 1..Len(words) |-> Capitalize(words[i])], "")

camel_case(name) ==
    LET pascal == pascal_case(name)
    IN IF pascal # "" THEN LowerChar(Char(pascal, 1)) \o From(pascal, 2) ELSE pascal

SQL_TO_CSHARP_TYPE_MAP ==
    [int |-> "int", bigint |-> "long", smallint |-> "short", tinyint |-> "byte",
     bit |-> "bool", decimal |-> "decimal", numeric |-> "decimal", money |-> "decimal",
     smallmoney |-> "decimal", float |-> "double", real |-> "float",
     datetime |-> "DateTime", datetime2 |-> "DateTime", smalldatetime |-> "DateTime",
     date |-> "DateTime", time |-> "TimeSpan", datetimeoffset |-> "DateTimeOffset",
     char |-> "string", varchar |-> "string", text |-> "string", nchar |-> "string",
     nvarchar |-> "string", ntext |-> "string", binary |-> "byte[]",
     varbinary |-> "byte[]", image |-> "byte[]", uniqueidentifier |-> "Guid",
     xml |-> "string", geography |-> "Microsoft.SqlServer.Types.SqlGeography",
     geometry |-> "Microsoft.SqlServer.Types.SqlGeometry",
     hierarchyid |-> "Microsoft.SqlServer.Types.SqlHierarchyId",
     sql_variant |-> "object"]

\* get_csharp_type without the lower(): the table is searched for the base
\* type as written
get_csharp_type_as_written(sql_type) ==
    LET base_type == SplitFirst(sql_type, "(")
    IN IF base_type \in DOMAIN SQL_TO_CSHARP_TYPE_MAP
       THEN SQL_TO_CSHARP_TYPE_MAP[base_type] ELSE "object"

get_csharp_type(sql_type) ==
    LET base_type == LowerStr(SplitFirst(sql_type, "("))
    IN IF base_type \in DOMAIN SQL_TO_CSHARP_TYPE_MAP
       THEN SQL_TO_CSHARP_TYPE_MAP[base_type] ELSE "object"

\* re.search(r'\((\d+)\)', s): <<>> when nothing matches, else <<group(1)>>
SearchParenDigits(s) ==
    LET starts == {i \in 1..Len(s) :
                     /\ Char(s, i) = "("
                     /\ \E j \in (i + 2)..Len(s) :
                           /\ Char(s, j) = ")"
                           /\ \A k \in (i + 1)..(j - 1) : Char(s, k) \in Chars(DigitChars)}
    IN IF starts = {} THEN <<>>
       ELSE LET i == CHOOSE x \in starts : \A y \in starts : x <= y
                j == CHOOSE x \in (i + 2)..Len(s) :
                         Char(s, x) = ")" /\ \A y \in (i + 2)..(x - 1) : Char(s, y) # ")"
            IN <<SubSeq(s, i + 1, j - 1)>>

-----------------------------------------------------------------------------
(* download/ef_code_generator.py: the generated files.  A text is the list *)
(* of its lines, each ended by a newline in the Python string; a dict of    *)
(* files is the list of its (name, content) entries in insertion order.    *)

\* d[key] = value of a mapping that keeps an entry per assignment
DictSetKeepingBoth(d, key, value) == Append(d, [name |-> key, content |-> value])

\* d[key] = value
DictSet(d, key, value) ==
    IF \E i \in 1..Len(d) : d[i].name = key
    THEN [i \in 1..Len(d) |-> IF d[i].name = key THEN [name |-> key, content |-> value] ELSE d[i]]
    ELSE Append(d, [name |-> key, content |-> value])

RECURSIVE DictSetAll(_, _, _)
\* for name, content in items: d[prefix + name] = content
DictSetAll(d, prefix, items) ==
    IF items = <<>> THEN d
    ELSE DictSetAll(DictSet(d, prefix \o Head(items).name, Head(items).content), prefix,
                    Tail(items))

\* the attributes and the property of one column of an entity class
EntityProperty(column, primary_keys) ==
    LET col_name == column.name
        base == get_csharp_type(column.type)
        col_type == IF GetNullable(column) /\ base \notin {"string", "byte[]", "object"}
                    THEN base \o "?" ELSE base
        prop_name == pascal_case(col_name)
        key == IF InList(col_name, primary_keys)
               THEN <<"[Key]">>
                    \o (IF Len(primary_keys) > 1
                        THEN <<"[Column(Order = " \o Str(ListIndex(col_name, primary_keys)) \o ")]">>
                        ELSE <<>>)
               ELSE <<>>
        column_name == IF col_name # prop_name /\ col_name # camel_case(prop_name)
                       THEN <<"[Column(\"" \o col_name \o "\")]">> ELSE <<>>
        required == IF ~GetNullable(column) /\ col_type \notin {"byte[]", "object"}
                    THEN <<"[Required]">> ELSE <<>>
        match == SearchParenDigits(column.type)
        string_length ==
            IF (Contains(LowerStr(column.type), "varchar")
                \/ Contains(LowerStr(column.type), "nvarchar"))
               /\ match # <<>> /\ match[1] # "max"
            THEN <<"[StringLength(" \o match[1] \o ")]">> ELSE <<>>
        attributes == key \o column_name \o required \o string_length
    IN [a \in 1..Len(attributes) |-> "        " \o attributes[a]]
       \o <<"        public " \o col_type \o " " \o prop_name \o " { get; set; }", "">>

generate_entity_class(table_name, columns, primary_keys, foreign_keys) ==
    LET class_name == pascal_case(table_name) IN
    <<"using System;",
      "using System.Collections.Generic;",
      "using System.ComponentModel.DataAnnotations;",
      "using System.ComponentModel.DataAnnotations.Schema;",
      "",
      "namespace YourNamespace.Models",
      "{",
      "    [Table(\"" \o table_name \o "\")]",
      "    public class " \o class_name,
      "    {">>
    \o ConcatAll([c \in 1..Len(columns) |-> EntityProperty(columns[c], primary_keys)])
    \o ConcatAll([f \in 1..Len(foreign_keys) |->
           LET related_class == pascal_case(foreign_keys[f].referred_table) IN
           <<"        public virtual " \o related_class \o " " \o related_class \o " { get; set; }",
             "">>])
    \o <<"    }", "}">>

\* the relationship configuration of the context class for one relationship
ContextRelationship(rel) ==
    LET source_class == pascal_case(rel.source_table)
        source_prop == IF rel.source_columns # <<>> THEN pascal_case(rel.source_columns[1]) ELSE ""
        target_class == pascal_case(rel.target_table)
        target_prop == IF rel.target_columns # <<>> THEN pascal_case(rel.target_columns[1]) ELSE ""
    IN IF source_prop = "" \/ target_prop = "" THEN <<>>
       ELSE <<"            modelBuilder.Entity<" \o source_class \o ">()",
              "                .HasOne(s => s." \o target_class \o ")",
              "                .WithMany()",
              "                .HasForeignKey(s => s." \o source_prop \o ");",
              "">>

generate_dbcontext_class(s, context_name) ==
    <<"using Microsoft.EntityFrameworkCore;",
      "using YourNamespace.Models;",
      "",
      "namespace YourNamespace.Data",
      "{",
      "    public class " \o context_name \o " : DbContext",
      "    {",
      "        public " \o context_name \o "(DbContextOptions<" \o context_name \o "> options)",
      "            : base(options)",
      "        {",
      "        }",
      "">>
    \o [t \in 1..Len(s.tables) |->
           "        public DbSet<" \o pascal_case(s.tables[t].name) \o "> "
           \o pascal_case(s.tables[t].name) \o "s { get; set; }"]
    \o <<"",
         "        protected override void OnModelCreating(ModelBuilder modelBuilder)",
         "        {">>
    \o ConcatAll([r \in 1..Len(s.relationships) |-> ContextRelationship(s.relationships[r])])
    \o <<"        }", "    }", "}">>

\* KeyDeclaration naming the first key column only
KeyDeclarationFirstOnly(primary_keys) ==
    IF primary_keys # <<>>
    THEN <<"            builder.HasKey(e => e." \o pascal_case(primary_keys[1]) \o ");", "">>
    ELSE <<>>

\* the primary key of a configuration class
KeyDeclaration(primary_keys) ==
    IF primary_keys # <<>>
    THEN IF Len(primary_keys) = 1
         THEN <<"            builder.HasKey(e => e." \o pascal_case(primary_keys[1]) \o ");", "">>
         ELSE <<"            builder.HasKey(e => new { "
                \o Join([k \in 1..Len(primary_keys) |-> "e." \o pascal_case(primary_keys[k])], ", ")
                \o " });", "">>
    ELSE <<>>

\* the property configuration of one column
ColumnConfiguration(column) ==
    LET chain == <<"                .HasColumnName(\"" \o column.name \o "\")">>
                 \o (IF "type" \in DOMAIN column
                     THEN <<"                .HasColumnType(\"" \o column.type \o "\")">> ELSE <<>>)
                 \o (IF ~GetNullable(column) THEN <<"                .IsRequired()">> ELSE <<>>)
                 \o (IF HasDefault(column)
                     THEN <<"                .HasDefaultValue(" \o column.default \o ")">> ELSE <<>>)
    IN <<"            builder.Property(e => e." \o pascal_case(column.name) \o ")">>
       \o [i \in 1..Len(chain) |-> IF i = Len(chain) THEN chain[i] \o ";" ELSE chain[i]]
       \o <<"">>

\* the relationship configuration of one foreign key
ForeignKeyConfiguration(fk) ==
    LET ref_class == pascal_case(fk.referred_table)
        source_cols == [i \in 1..Len(fk.constrained_columns) |-> pascal_case(fk.constrained_columns[i])]
        target_cols == [i \in 1..Len(fk.referred_columns) |-> pascal_case(fk.referred_columns[i])]
    IN IF source_cols = <<>> \/ target_cols = <<>> THEN <<>>
       ELSE <<"            builder.HasOne(e => e." \o ref_class \o ")",
              "                .WithMany()",
              IF Len(source_cols) = 1
              THEN "                .HasForeignKey(e => e." \o source_cols[1] \o ");"
              ELSE "                .HasForeignKey(e => new { "
                   \o Join([i \in 1..Len(source_cols) |-> "e." \o source_cols[i]], ", ") \o " });",
              "">>

\* the configuration class of one table
EntityConfiguration(table_name, table_info) ==
    LET class_name == pascal_case(table_name)
        config_class_name == class_name \o "Configuration"
    IN <<"using Microsoft.EntityFrameworkCore;",
         "using Microsoft.EntityFrameworkCore.Metadata.Builders;",
         "using YourNamespace.Models;",
         "",
         "namespace YourNamespace.Data.Configurations",
         "{",
         "    public class " \o config_class_name \o " : IEntityTypeConfiguration<" \o class_name \o ">",
         "    {",
         "        public void Configure(EntityTypeBuilder<" \o class_name \o "> builder)",
         "        {",
         "            builder.ToTable(\"" \o table_name \o "\");",
         "">>
       \o KeyDeclaration(table_info.primary_keys)
       \o ConcatAll([c \in 1..Len(table_info.columns) |-> ColumnConfiguration(table_info.columns[c])])
       \o ConcatAll([f \in 1..Len(table_info.foreign_keys) |->
              ForeignKeyConfiguration(table_info.foreign_keys[f])])
       \o <<"        }", "    }", "}">>

RECURSIVE EntityConfigurations(_, _)
\* configurations after the tables from the i-th on were handled
EntityConfigurations(tables, configurations) ==
    IF tables = <<>> THEN configurations
    ELSE EntityConfigurations(Tail(tables),
             DictSet(configurations, pascal_case(Head(tables).name) \o "Configuration",
                     EntityConfiguration(Head(tables).name, Head(tables))))

generate_entity_configurations(s) == EntityConfigurations(s.tables, <<>>)

\* generate_startup_code(), line by line
StartupCode ==
    <<"// Add these sections to your Startup.cs or Program.cs file",
      "",
      "// Service registration",
      "services.AddDbContext<YourDbContext>(options =>",
      "    options.UseSqlServer(Configuration.GetConnectionString(\"DefaultConnection\")));",
      "",
      "// Example appsettings.json configuration",
      "/*",
      "{",
      "  \"ConnectionStrings\": {",
      "    \"DefaultConnection\": \"Server=yourserver;Database=yourdatabase;Trusted_Connection=True;MultipleActiveResultSets=true\"",
      "  }",
      "}",
      "*/">>

\* generate_migrations_commands(), line by line
MigrationsCommands ==
    <<"// Entity Framework Core migrations commands",
      "",
      "// Install required packages",
      "dotnet add package Microsoft.EntityFrameworkCore.SqlServer",
      "dotnet add package Microsoft.EntityFrameworkCore.Tools",
      "",
      "// Create initial migration",
      "dotnet ef migrations add InitialCreate",
      "",
      "// Apply migrations to the database",
      "dotnet ef database update">>

\* repositories["IRepository.cs"]
IRepositoryText ==
    <<"using System;",
      "using System.Collections.Generic;",
      "using System.Linq;",
      "using System.Linq.Expressions;",
      "using System.Threading.Tasks;",
      "",
      "namespace YourNamespace.Repositories",
      "{",
      "    public interface IRepository<T> where T : class",
      "    {",
      "        // Synchronous methods",
      "        IQueryable<T> GetAll();",
      "        IQueryable<T> Find(Expression<Func<T, bool>> predicate);",
      "        T GetById(object id);",
      "        void Add(T entity);",
      "        void AddRange(IEnumerable<T> entities);",
      "        void Update(T entity);",
      "        void Remove(T entity);",
      "        void RemoveRange(IEnumerable<T> entities);",
      "        ",
      "        // Asynchronous methods",
      "        Task<List<T>> GetAllAsync();",
      "        Task<T> GetByIdAsync(object id);",
      "        Task AddAsync(T entity);",
      "        Task AddRangeAsync(IEnumerable<T> entities);",
      "    }",
      "}">>

\* repositories["Repository.cs"]
RepositoryText ==
    <<"using Microsoft.EntityFrameworkCore;",
      "using System;",
      "using System.Collections.Generic;",
      "using System.Linq;",
      "using System.Linq.Expressions;",
      "using System.Threading.Tasks;",
      "using YourNamespace.Data;",
      "",
      "namespace YourNamespace.Repositories",
      "{",
      "    public class Repository<T> : IRepository<T> where T : class",
      "    {",
      "        protected readonly YourDbContext _context;",
      "        protected readonly DbSet<T> _dbSet;",
      "",
      "        public Repository(YourDbContext context)",
      "        {",
      "            _context = context;",
      "            _dbSet = context.Set<T>();",
      "        }",
      "",
      "        public virtual IQueryable<T> GetAll()",
      "        {",
      "            return _dbSet;",
      "        }",
      "",
      "        public virtual IQueryable<T> Find(Expression<Func<T, bool>> predicate)",
      "        {",
      "            return _dbSet.Where(predicate);",
      "        }",
      "",
      "        public virtual T GetById(object id)",
      "        {",
      "            return _dbSet.Find(id);",
      "        }",
      "",
      "        public virtual void Add(T entity)",
      "        {",
      "            _dbSet.Add(entity);",
      "        }",
      "",
      "        public virtual void AddRange(IEnumerable<T> entities)",
      "        {",
      "            _dbSet.AddRange(entities);",
      "        }",
      "",
      "        public virtual void Update(T entity)",
      "        {",
      "            _dbSet.Attach(entity);",
      "            _context.Entry(entity).State = EntityState.Modified;",
      "        }",
      "",
      "        public virtual void Remove(T entity)",
      "        {",
      "            if (_context.Entry(entity).State == EntityState.Detached)",
      "            {",
      "                _dbSet.Attach(entity);",
      "            }",
      "            _dbSet.Remove(entity);",
      "        }",
      "",
      "        public virtual void RemoveRange(IEnumerable<T> entities)",
      "        {",
      "            _dbSet.RemoveRange(entities);",
      "        }",
      "",
      "        public virtual async Task<List<T>> GetAllAsync()",
      "        {",
      "            return await _dbSet.ToListAsync();",
      "        }",
      "",
      "        public virtual async Task<T> GetByIdAsync(object id)",
      "        {",
      "            return await _dbSet.FindAsync(id);",
      "        }",
      "",
      "        public virtual async Task AddAsync(T entity)",
      "        {",
      "            await _dbSet.AddAsync(entity);",
      "        }",
      "",
      "        public virtual async Task AddRangeAsync(IEnumerable<T> entities)",
      "        {",
      "            await _dbSet.AddRangeAsync(entities);",
      "        }",
      "    }",
      "}">>

\* repositories["IUnitOfWork.cs"] up to the repository properties
IUnitOfWorkHead ==
    <<"using System;",
      "using System.Threading.Tasks;",
      "",
      "namespace YourNamespace.Repositories",
      "{",
      "    public interface IUnitOfWork : IDisposable",
      "    {",
      "        // Add specific repositories here">>

\* repositories["IUnitOfWork.cs"] after the repository properties
IUnitOfWorkTail ==
    <<"",
      "        // Save changes methods",
      "        int Complete();",
      "        Task<int> CompleteAsync();",
      "    }",
      "}">>

\* repositories["UnitOfWork.cs"] up to the repository fields
UnitOfWorkHead ==
    <<"using System;",
      "using System.Threading.Tasks;",
      "using YourNamespace.Data;",
      "using YourNamespace.Models;",
      "",
      "namespace YourNamespace.Repositories",
      "{",
      "    public class UnitOfWork : IUnitOfWork",
      "    {",
      "        private readonly YourDbContext _context;",
      "        private bool _disposed = false;",
      "">>

\* repositories["UnitOfWork.cs"] between the fields and the properties
UnitOfWorkConstructor ==
    <<"",
      "        public UnitOfWork(YourDbContext context)",
      "        {",
      "            _context = context;",
      "        }",
      "">>

\* repositories["UnitOfWork.cs"] after the repository properties
UnitOfWorkTail ==
    <<"        public int Complete()",
      "        {",
      "            return _context.SaveChanges();",
      "        }",
      "",
      "        public async Task<int> CompleteAsync()",
      "        {",
      "            return await _context.SaveChangesAsync();",
      "        }",
      "",
      "        protected virtual void Dispose(bool disposing)",
      "        {",
      "            if (!_disposed)",
      "            {",
      "                if (disposing)",
      "                {",
      "                    _context.Dispose();",
      "                }",
      "            }",
      "            _disposed = true;",
      "        }",
      "",
      "        public void Dispose()",
      "        {",
      "            Dispose(true);",
      "            GC.SuppressFinalize(this);",
      "        }",
      "    }",
      "}">>

\* services["IService.cs"]
IServiceText ==
    <<"using System;",
      "using System.Collections.Generic;",
      "using System.Linq;",
      "using System.Linq.Expressions;",
      "using System.Threading.Tasks;",
      "",
      "namespace YourNamespace.Services",
      "{",
      "    public interface IService<T> where T : class",
      "    {",
      "        IQueryable<T> GetAll();",
      "        IEnumerable<T> Find(Expression<Func<T, bool>> predicate);",
      "        T GetById(object id);",
      "        void Add(T entity);",
      "        void AddRange(IEnumerable<T> entities);",
      "        void Update(T entity);",
      "        void Remove(T entity);",
      "        void RemoveRange(IEnumerable<T> entities);",
      "        void SaveChanges();",
      "        ",
      "        // Async methods",
      "        Task<List<T>> GetAllAsync();",
      "        Task<T> GetByIdAsync(object id);",
      "        Task AddAsync(T entity);",
      "        Task AddRangeAsync(IEnumerable<T> entities);",
      "        Task SaveChangesAsync();",
      "    }",
      "}">>

\* services["Service.cs"]
ServiceText ==
    <<"using System;",
      "using System.Collections.Generic;",
      "using System.Linq;",
      "using System.Linq.Expressions;",
      "using System.Threading.Tasks;",
      "using YourNamespace.Repositories;",
      "",
      "namespace YourNamespace.Services",
      "{",
      "    public class Service<T> : IService<T> where T : class",
      "    {",
      "        protected readonly IUnitOfWork _unitOfWork;",
      "        protected readonly IRepository<T> _repository;",
      "",
      "        public Service(IUnitOfWork unitOfWork, IRepository<T> repository)",
      "        {",
      "            _unitOfWork = unitOfWork;",
      "            _repository = repository;",
      "        }",
      "",
      "        public virtual IQueryable<T> GetAll()",
      "        {",
      "            return _repository.GetAll();",
      "        }",
      "",
      "        public virtual IEnumerable<T> Find(Expression<Func<T, bool>> predicate)",
      "        {",
      "            return _repository.Find(predicate);",
      "        }",
      "",
      "        public virtual T GetById(object id)",
      "        {",
      "            return _repository.GetById(id);",
      "        }",
      "",
      "        public virtual void Add(T entity)",
      "        {",
      "            _repository.Add(entity);",
      "        }",
      "",
      "        public virtual void AddRange(IEnumerable<T> entities)",
      "        {",
      "            _repository.AddRange(entities);",
      "        }",
      "",
      "        public virtual void Update(T entity)",
      "        {",
      "            _repository.Update(entity);",
      "        }",
      "",
      "        public virtual void Remove(T entity)",
      "        {",
      "            _repository.Remove(entity);",
      "        }",
      "",
      "        public virtual void RemoveRange(IEnumerable<T> entities)",
      "        {",
      "            _repository.RemoveRange(entities);",
      "        }",
      "",
      "        public virtual void SaveChanges()",
      "        {",
      "            _unitOfWork.Complete();",
      "        }",
      "",
      "        public virtual async Task<List<T>> GetAllAsync()",
      "        {",
      "            return await _repository.GetAllAsync();",
      "        }",
      "",
      "        public virtual async Task<T> GetByIdAsync(object id)",
      "        {",
      "            return await _repository.GetByIdAsync(id);",
      "        }",
      "",
      "        public virtual async Task AddAsync(T entity)",
      "        {",
      "            await _repository.AddAsync(entity);",
      "        }",
      "",
      "        public virtual async Task AddRangeAsync(IEnumerable<T> entities)",
      "        {",
      "            await _repository.AddRangeAsync(entities);",
      "        }",
      "",
      "        public virtual async Task SaveChangesAsync()",
      "        {",
      "            await _unitOfWork.CompleteAsync();",
      "        }",
      "    }",
      "}">>

\* the repository property of one table in IUnitOfWork
UnitOfWorkInterfaceProperty(table_name) ==
    "        IRepository<" \o pascal_case(table_name) \o "> " \o pascal_case(table_name)
    \o "Repository { get; }"

\* the repository field of one table in UnitOfWork
UnitOfWorkField(table_name) ==
    "        private IRepository<" \o pascal_case(table_name) \o "> _" \o camel_case(table_name)
    \o "Repository;"

\* the repository property of one table in UnitOfWork
UnitOfWorkProperty(table_name) ==
    LET class_name == pascal_case(table_name)
        field_name == "_" \o camel_case(table_name) \o "Repository"
    IN <<"        public IRepository<" \o class_name \o "> " \o class_name \o "Repository",
         "        {",
         "            get",
         "            {",
         "                if (" \o field_name \o " == null)",
         "                {",
         "                    " \o field_name \o " = new Repository<" \o class_name \o ">(_context);",
         "                }",
         "                return " \o field_name \o ";",
         "            }",
         "        }",
         "">>

\* generate_repository_pattern with the unit of work stored under the key of
\* its interface
generate_repository_pattern_same_key(s) ==
    LET names == Keys(s.tables) IN
    DictSet(DictSet(DictSet(DictSet(<<>>,
        "IRepository.cs", IRepositoryText),
        "Repository.cs", RepositoryText),
        "IUnitOfWork.cs",
            IUnitOfWorkHead \o [t \in 1..Len(names) |-> UnitOfWorkInterfaceProperty(names[t])]
            \o IUnitOfWorkTail),
        "IUnitOfWork.cs",
            UnitOfWorkHead \o [t \in 1..Len(names) |-> UnitOfWorkField(names[t])]
            \o UnitOfWorkConstructor
            \o ConcatAll([t \in 1..Len(names) |-> UnitOfWorkProperty(names[t])])
            \o UnitOfWorkTail)

generate_repository_pattern(s) ==
    LET names == Keys(s.tables) IN
    DictSet(DictSet(DictSet(DictSet(<<>>,
        "IRepository.cs", IRepositoryText),
        "Repository.cs", RepositoryText),
        "IUnitOfWork.cs",
            IUnitOfWorkHead \o [t \in 1..Len(names) |-> UnitOfWorkInterfaceProperty(names[t])]
            \o IUnitOfWorkTail),
        "UnitOfWork.cs",
            UnitOfWorkHead \o [t \in 1..Len(names) |-> UnitOfWorkField(names[t])]
            \o UnitOfWorkConstructor
            \o ConcatAll([t \in 1..Len(names) |-> UnitOfWorkProperty(names[t])])
            \o UnitOfWorkTail)

\* the service interface of one table
ServiceInterface(class_name) ==
    <<"using System.Collections.Generic;",
      "using System.Threading.Tasks;",
      "using YourNamespace.Models;",
      "",
      "namespace YourNamespace.Services",
      "{",
      "    public interface I" \o class_name \o "Service : IService<" \o class_name \o ">",
      "    {",
      "        // Add specific methods for " \o class_name \o " here",
      "    }",
      "}">>

\* the service implementation of one table
ServiceClass(class_name) ==
    <<"using System.Collections.Generic;",
      "using System.Threading.Tasks;",
      "using YourNamespace.Models;",
      "using YourNamespace.Repositories;",
      "",
      "namespace YourNamespace.Services",
      "{",
      "    public class " \o class_name \o "Service : Service<" \o class_name \o ">, I"
          \o class_name \o "Service",
      "    {",
      "        public " \o class_name \o "Service(IUnitOfWork unitOfWork) ",
      "            : base(unitOfWork, unitOfWork." \o class_name \o "Repository)",
      "        {",
      "        }",
      "",
      "        // Implement specific methods for " \o class_name \o " here",
      "    }",
      "}">>

RECURSIVE TableServices(_, _)
\* services after the per-table loop over the tables given
TableServices(names, services) ==
    IF names = <<>> THEN services
    ELSE LET class_name == pascal_case(Head(names)) IN
         TableServices(Tail(names),
             DictSet(DictSet(services, "I" \o class_name \o "Service.cs", ServiceInterface(class_name)),
                     class_name \o "Service.cs", ServiceClass(class_name)))

generate_service_layer(s) ==
    TableServices(Keys(s.tables),
        DictSet(DictSet(<<>>, "IService.cs", IServiceText), "Service.cs", ServiceText))

RECURSIVE EntityFiles(_, _)
\* code_files after the loop over the tables given
EntityFiles(tables, files) ==
    IF tables = <<>> THEN files
    ELSE EntityFiles(Tail(tables),
             DictSet(files, "Models/" \o pascal_case(Head(tables).name) \o ".cs",
                     generate_entity_class(Head(tables).name, Head(tables).columns,
                                           Head(tables).primary_keys, Head(tables).foreign_keys)))

generate_ef_code(s) ==
    LET f1 == EntityFiles(s.tables, <<>>)
        f2 == DictSet(f1, "Data/YourDbContext.cs", generate_dbcontext_class(s, "YourDbContext"))
        f3 == DictSetAll(f2, "Data/Configurations/",
                  [i \in 1..Len(generate_entity_configurations(s)) |->
                      [name |-> generate_entity_configurations(s)[i].name \o ".cs",
                       content |-> generate_entity_configurations(s)[i].content]])
        f4 == DictSet(f3, "Startup_EF_Config.cs", StartupCode)
        f5 == DictSet(f4, "EF_Migrations_Commands.txt", MigrationsCommands)
        f6 == DictSetAll(f5, "Repositories/", generate_repository_pattern(s))
    IN DictSetAll(f6, "Services/", generate_service_layer(s))

-----------------------------------------------------------------------------
(* download/ef_code_generator.py: the exceptions *)

\* list.index(x)
ValueError(x, list) == IF InList(x, list) THEN <<>> ELSE <<"ValueError">>

\* the body of the loop over columns of generate_entity_class
EntityPropertyRaised(column, primary_keys) ==
    LET keys == KeyError(column, "name") \o KeyError(column, "type")
    IN IF keys # <<>> THEN keys
       ELSE IF InList(column.name, primary_keys) /\ Len(primary_keys) > 1
            THEN ValueError(column.name, primary_keys)
            ELSE <<>>

generate_entity_class_raised(table_name, columns, primary_keys, foreign_keys) ==
    FirstOf(ConcatAll([c \in 1..Len(columns) |-> EntityPropertyRaised(columns[c], primary_keys)])
            \o ConcatAll([f \in 1..Len(foreign_keys) |->
                   KeyError(foreign_keys[f], "referred_table")]))

\* rel[key][0] if rel[key] else ""
FirstColumnRaised(rel, key) ==
    IF KeyError(rel, key) # <<>> THEN KeyError(rel, key)
    ELSE IF rel[key] # <<>> THEN IndexError(rel[key], 0) ELSE <<>>

\* the body of the loop over relationships of generate_dbcontext_class
ContextRelationshipRaised(rel) ==
    KeyError(rel, "source_table") \o FirstColumnRaised(rel, "source_columns")
    \o KeyError(rel, "target_table") \o FirstColumnRaised(rel, "target_columns")

generate_dbcontext_class_raised(s) ==
    FirstOf(ConcatAll([i \in 1..Len(s.relationships) |->
        ContextRelationshipRaised(s.relationships[i])]))

\* KeyDeclarationRaised without "if primary_keys:", the single-property form
\* taken for every list of at most one column
KeyDeclarationRaisedUnguarded(primary_keys) ==
    IF Len(primary_keys) <= 1 THEN IndexError(primary_keys, 0) ELSE <<>>

\* if primary_keys: if len(primary_keys) == 1: primary_keys[0]
KeyDeclarationRaised(primary_keys) ==
    IF primary_keys # <<>>
    THEN (IF Len(primary_keys) = 1 THEN IndexError(primary_keys, 0) ELSE <<>>)
    ELSE <<>>

\* the foreign keys of generate_entity_configurations: source_cols[0] is read
\* after "if not source_cols or not target_cols: continue"
ForeignKeyConfigurationRaised(fk) ==
    LET keys == KeyError(fk, "referred_table") \o KeyError(fk, "constrained_columns")
                \o KeyError(fk, "referred_columns")
    IN IF keys # <<>> THEN keys
       ELSE IF fk.constrained_columns = <<>> \/ fk.referred_columns = <<>> THEN <<>>
       ELSE IF Len(fk.constrained_columns) = 1 THEN IndexError(fk.constrained_columns, 0)
       ELSE <<>>

\* the body of the loop over tables of generate_entity_configurations
EntityConfigurationRaised(table_info) ==
    LET keys == KeyError(table_info, "primary_keys")
    IN IF keys # <<>> THEN keys
       ELSE KeyDeclarationRaised(table_info.primary_keys)
            \o (IF KeyError(table_info, "columns") # <<>> THEN KeyError(table_info, "columns")
                ELSE ConcatAll([c \in 1..Len(table_info.columns) |->
                         KeyError(table_info.columns[c], "name")]))
            \o (IF KeyError(table_info, "foreign_keys") # <<>>
                THEN KeyError(table_info, "foreign_keys")
                ELSE ConcatAll([f \in 1..Len(table_info.foreign_keys) |->
                         ForeignKeyConfigurationRaised(table_info.foreign_keys[f])]))

generate_entity_configurations_raised(s) ==
    FirstOf(ConcatAll([i \in 1..Len(s.tables) |-> EntityConfigurationRaised(s.tables[i])]))

\* the loop over tables of generate_ef_code
EntityFilesRaised(table_info) ==
    LET keys == KeyError(table_info, "columns") \o KeyError(table_info, "primary_keys")
                \o KeyError(table_info, "foreign_keys")
    IN IF keys # <<>> THEN keys
       ELSE generate_entity_class_raised(table_info.name, table_info.columns,
                                         table_info.primary_keys, table_info.foreign_keys)

\* generate_ef_code has no try; the repository and service generators read
\* the table names only
generate_ef_code_raised(s) ==
    FirstOf(ConcatAll([i \in 1..Len(s.tables) |-> EntityFilesRaised(s.tables[i])])
            \o generate_dbcontext_class_raised(s)
            \o generate_entity_configurations_raised(s))

-----------------------------------------------------------------------------
(* The code generator as a state machine: a schema, then calls on it *)

\* the columns of the table the code is generated for
GeneratedColumns ==
    <<[name |-> "id", type |-> "int", nullable |-> FALSE],
      [name |-> "order_id", type |-> "bigint", nullable |-> FALSE, default |-> "0"],
      [name |-> "line_no", type |-> "VARCHAR(50)", nullable |-> TRUE],
      [name |-> "SKU", type |-> "uniqueidentifier", nullable |-> TRUE]>>

\* the primary keys it may have: at most max of its columns, in any order
KeyLists(max) ==
    UNION {Orders(S) : S \in {T \in SUBSET Range(Keys(GeneratedColumns)) : Cardinality(T) <= max}}

\* its foreign keys to the table customers: of one column, of two columns
CustomerKeys ==
    {<<[name |-> "FK_order_items_customers", constrained_columns |-> <<"order_id">>,
        referred_table |-> "customers", referred_columns |-> <<"id">>]>>,
     <<[name |-> "FK_order_items_customers2", constrained_columns |-> <<"order_id", "line_no">>,
        referred_table |-> "customers", referred_columns |-> <<"id", "code">>]>>}

OrderItems(primary_keys, foreign_keys) ==
    [name |-> "order_items", columns |-> GeneratedColumns, primary_keys |-> primary_keys,
     foreign_keys |-> foreign_keys]

Customers ==
    [name |-> "customers",
     columns |-> <<[name |-> "id", type |-> "int", nullable |-> FALSE],
                   [name |-> "code", type |-> "nvarchar(max)", nullable |-> FALSE]>>,
     primary_keys |-> <<"id">>,
     foreign_keys |-> <<>>]

\* no table; the table order_items alone; customers and order_items joined by
\* a foreign key
GeneratedSchemas ==
    {EmptySchema}
    \cup {get_full_schema(<<OrderItems(pk, <<>>)>>, <<>>, <<>>, <<>>) : pk \in KeyLists(MaxPk)}
    \cup {get_full_schema(<<Customers, OrderItems(x[1], x[2])>>, <<>>, <<>>, <<>>) :
             x \in KeyLists(MaxPk) \X CustomerKeys}

InitGen ==
    /\ schema \in GeneratedSchemas
    /\ done = {}
    /\ all_unsorted = <<>>
    /\ recommendations = <<>>
    /\ metrics = NoMetrics
    /\ printed = <<>>
    /\ code_files = <<>>
    /\ prev_code_files = <<>>
    /\ ident_in = ""
    /\ ident_out = <<>>
    /\ raised = {}
    /\ type_in = ""
    /\ type_out = <<>>
    /\ dependency_graph = <<>>
    /\ uml = <<>>
    /\ session_state = NoSession
    /\ ef_options = DefaultOptions
    /\ displayed = NothingDisplayed

\* GenerateEfCode reading the tables in an order that is not fixed, as an
\* iteration over a set of tables would
GenerateEfCodeAnyTableOrder ==
    /\ \E order \in Orders(1..Len(schema.tables)) :
          code_files' = generate_ef_code(
              [schema EXCEPT !.tables = [i \in 1..Len(schema.tables) |-> schema.tables[order[i]]]])
    /\ prev_code_files' = code_files
    /\ done' = done \cup {"generate"}
    /\ UNCHANGED <<app_vars, schema, all_unsorted, recommendations, metrics, printed, ident_in, ident_out,
                   raised, type_in, type_out, dependency_graph, uml>>

\* code_files = generate_ef_code(schema), or the exception it raised
GenerateEfCode ==
    /\ IF generate_ef_code_raised(schema) = <<>>
       THEN /\ code_files' = generate_ef_code(schema)
            /\ prev_code_files' = code_files
            /\ done' = done \cup {"generate"}
            /\ UNCHANGED raised
       ELSE /\ raised' = raised \cup Raised("generate_ef_code", generate_ef_code_raised(schema))
            /\ UNCHANGED <<code_files, prev_code_files, done>>
    /\ UNCHANGED <<app_vars, schema, all_unsorted, recommendations, metrics, printed, ident_in, ident_out,
                   type_in, type_out, dependency_graph, uml>>

NextGen == GenerateEfCode \/ AnalyzeDatabase

SpecGen == InitGen /\ [][NextGen]_vars

-----------------------------------------------------------------------------
(* The code generator on table names that meet after pascal_case, on short *)
(* names, and on a foreign key to a table of another schema                 *)

\* a table of two columns
NamedTable(name, primary_keys, foreign_keys) ==
    [name |-> name,
     columns |-> <<[name |-> "id", type |-> "int", nullable |-> FALSE],
                   [name |-> "ref", type |-> "int", nullable |-> TRUE]>>,
     primary_keys |-> primary_keys,
     foreign_keys |-> foreign_keys]

\* a foreign key of one column to the table referred_table
NamedForeignKey(table_name, referred_table) ==
    [name |-> "FK_" \o table_name \o "_" \o referred_table,
     constrained_columns |-> <<"ref">>,
     referred_table |-> referred_table,
     referred_columns |-> <<"id">>]

\* inspector.get_table_names() of the databases: two names that differ after
\* pascal_case; two that meet in 'OrderItems'; the names 'i' and '_' of
\* pascal_case 'I' and ''
NamePairs ==
    {<<"orders", "customers">>, <<"order_items", "order items">>,
     <<"i", "orders">>, <<"_", "orders">>}

\* inspector.get_foreign_keys() of the first table: none, one to the second
\* table, one to the table 'suppliers' that get_table_names() does not list
NamedForeignKeys(table_name, other) ==
    {<<>>, <<NamedForeignKey(table_name, other)>>, <<NamedForeignKey(table_name, "suppliers")>>}

\* the two tables of a pair in both orders, with and without primary key
NamedSchemas ==
    {get_full_schema(<<NamedTable(x[1][x[2]], x[3], x[5]),
                       NamedTable(x[1][3 - x[2]], x[4], <<>>)>>, <<>>, <<>>, <<>>) :
        x \in {y \in NamePairs \X {1, 2} \X {<<>>, <<"id">>} \X {<<>>, <<"id">>}
                     \X UNION {NamedForeignKeys(p[1], p[2]) \cup NamedForeignKeys(p[2], p[1]) :
                                  p \in NamePairs} :
                  y[5] \in NamedForeignKeys(y[1][y[2]], y[1][3 - y[2]])}}

InitNames ==
    /\ schema \in NamedSchemas
    /\ done = {}
    /\ all_unsorted = <<>>
    /\ recommendations = <<>>
    /\ metrics = NoMetrics
    /\ printed = <<>>
    /\ code_files = <<>>
    /\ prev_code_files = <<>>
    /\ ident_in = ""
    /\ ident_out = <<>>
    /\ raised = {}
    /\ type_in = ""
    /\ type_out = <<>>
    /\ dependency_graph = <<>>
    /\ uml = <<>>
    /\ session_state = NoSession
    /\ ef_options = DefaultOptions
    /\ displayed = NothingDisplayed

SpecNames == InitNames /\ [][NextGen]_vars

-----------------------------------------------------------------------------
(* app.py: show_sql_server_uml_page.  Every click runs the page from top to *)
(* bottom: the connection tab, then the analysis tab, then the code tab.    *)

\* the databases of the server and the name a backup is restored under
Databases == {"Shop", "Legacy", "Empty"}

RestoredDatabase == "RestoredDB"

\* what get_full_schema(engine) returns for each of them: two tables with a
\* foreign key, one without primary key; routines whose definitions are not
\* text; no table; one table
DatabaseSchema(db) ==
    IF db = "Shop"
    THEN get_full_schema(<<Customers, OrderItems(<<>>, <<NamedForeignKey("order_items", "customers")>>)>>, <<>>, <<>>, <<>>)
    ELSE IF db = "Legacy"
    THEN get_full_schema(Tables(2, <<2, 1>>, <<(<<1, 2>>)>>), <<>>,
                         <<[name |-> "p", definition |-> UnreadableDefinition]>>, <<>>)
    ELSE IF db = "Empty" THEN EmptySchema
    ELSE get_full_schema(<<OrderItems(<<"id">>, <<>>)>>, <<>>, <<>>, <<>>)

\* the values typed into the text inputs 'Namespace:' and 'DbContext Name:'
Options ==
    [namespace : {"YourNamespace", "Shop"},
     context_name : {"ApplicationDbContext", "YourDbContext", "ShopContext"}]

\* "if st.session_state.recommendations:" for None or a list
Truthy(value) == value # <<>> /\ value[1] # <<>>

\* the schemas the page can hold
ExtractedSchemas == {DatabaseSchema(db) : db \in Databases \cup {RestoredDatabase}}

\* what analyze_database(s) and generate_ef_code(s) do for each of them: the
\* exception raised or the value returned, the list of findings for each
\* order of the isolated tables
Calls ==
    [s \in ExtractedSchemas |->
        [analyze_database_raised |-> analyze_database_raised(s),
         analyze_database |->
             IF analyze_database_raised(s) # <<>> THEN <<>>
             ELSE [iso_order \in Orders(IsolatedTables(s)) |->
                      SortBySeverity(AllRecommendations(s, iso_order))],
         generate_ef_code_raised |-> generate_ef_code_raised(s),
         generate_ef_code |->
             IF generate_ef_code_raised(s) # <<>> THEN <<>> ELSE generate_ef_code(s)]]

\* the connection tab after "Connect to Database" (or after a restore): the
\* engine is stored, then inside try: the schema is extracted and stored, the
\* findings are computed and stored, the code is generated and stored; an
\* exception of any step ends the try and is shown with st.error
ExtractSchema(ss, s, db, extracted, iso_order, calls) ==
    LET engine == [ss EXCEPT !.sql_engine = <<db>>]
        with_schema == [engine EXCEPT !.db_schema = <<s>>]
        with_recommendations ==
            [with_schema EXCEPT !.recommendations = <<calls[s].analyze_database[iso_order]>>]
    IN IF ~extracted THEN engine
       ELSE IF calls[s].analyze_database_raised # <<>> THEN with_schema
       ELSE IF calls[s].generate_ef_code_raised # <<>> THEN with_recommendations
       ELSE [with_recommendations EXCEPT !.code_files = <<calls[s].generate_ef_code>>]

\* the analysis tab: the stored findings are displayed if there are any,
\* else analyze_database is called, outside any try
AnalysisTab(ss, iso_order, calls) ==
    IF ss.db_schema = <<>>
    THEN [session |-> ss, shown |-> <<>>, raised |-> <<>>]
    ELSE IF Truthy(ss.recommendations)
    THEN [session |-> ss, shown |-> ss.recommendations, raised |-> <<>>]
    ELSE IF calls[ss.db_schema[1]].analyze_database_raised # <<>>
    THEN [session |-> ss, shown |-> <<>>,
          raised |-> calls[ss.db_schema[1]].analyze_database_raised]
    ELSE [session |-> [ss EXCEPT !.recommendations =
                                    <<calls[ss.db_schema[1]].analyze_database[iso_order]>>],
          shown |-> <<calls[ss.db_schema[1]].analyze_database[iso_order]>>,
          raised |-> <<>>]

\* the code tab after "Generate Code": the code is generated if none is
\* stored, and the stored code is displayed
CodeTab(ss, calls) ==
    IF ss.db_schema = <<>> THEN [session |-> ss, shown |-> <<>>]
    ELSE IF ss.code_files # <<>> THEN [session |-> ss, shown |-> ss.code_files]
    ELSE IF calls[ss.db_schema[1]].generate_ef_code_raised # <<>>
    THEN [session |-> ss, shown |-> <<>>]
    ELSE [session |-> [ss EXCEPT !.code_files = <<calls[ss.db_schema[1]].generate_ef_code>>],
          shown |-> <<calls[ss.db_schema[1]].generate_ef_code>>]

\* one run of the page: the connection tab if one of its buttons was
\* clicked (dbs: the databases that button can connect to), the analysis
\* tab, the code tab; an exception of the analysis tab ends the run
show_sql_server_uml_page(clicked, dbs) ==
    \E calls \in {Calls}, db \in dbs, extracted \in BOOLEAN :
        \E s \in {DatabaseSchema(db)} :
            \E iso_order \in Orders(IsolatedTables(s)) :
                \E ss \in {IF clicked \in {"Connect to Database", "Restore Database"}
                           THEN ExtractSchema(session_state, s, db, extracted, iso_order, calls)
                           ELSE session_state} :
                    \E tab_order \in IF ss.db_schema = <<>> THEN {<<>>}
                                     ELSE Orders(IsolatedTables(ss.db_schema[1])) :
                        \E analysis \in {AnalysisTab(ss, tab_order, calls)} :
                            \E code \in {IF analysis.raised = <<>> /\ clicked = "Generate Code"
                                          THEN CodeTab(analysis.session, calls)
                                          ELSE [session |-> analysis.session, shown |-> <<>>]} :
                                /\ session_state' = code.session
                                /\ displayed' = [recommendations |-> analysis.shown,
                                                 code_files |-> code.shown]
                                /\ raised' = raised \cup Raised("show_sql_server_uml_page",
                                                                analysis.raised)

InitApp ==
    /\ schema = EmptySchema
    /\ done = {}
    /\ all_unsorted = <<>>
    /\ recommendations = <<>>
    /\ metrics = NoMetrics
    /\ printed = <<>>
    /\ code_files = <<>>
    /\ prev_code_files = <<>>
    /\ ident_in = ""
    /\ ident_out = <<>>
    /\ raised = {}
    /\ type_in = ""
    /\ type_out = <<>>
    /\ dependency_graph = <<>>
    /\ uml = <<>>
    /\ session_state = NoSession
    /\ ef_options = DefaultOptions
    /\ displayed = NothingDisplayed

\* the variables of the direct calls, which the page leaves alone
call_vars == <<schema, done, all_unsorted, recommendations, metrics, printed, code_files,
               prev_code_files, ident_in, ident_out, type_in, type_out, dependency_graph, uml>>

\* the button "Connect to Database"; get_full_schema may raise
ConnectToDatabase ==
    /\ show_sql_server_uml_page("Connect to Database", Databases)
    /\ UNCHANGED <<call_vars, ef_options>>

\* the button "Restore Database" with a backup that restores
RestoreDatabase ==
    /\ show_sql_server_uml_page("Restore Database", {RestoredDatabase})
    /\ UNCHANGED <<call_vars, ef_options>>

\* a run of the page without a click on one of its buttons
OpenAnalysisTab ==
    /\ show_sql_server_uml_page("", {RestoredDatabase})
    /\ UNCHANGED <<call_vars, ef_options>>

\* a value typed into the text inputs of the code tab
EditOptions ==
    /\ session_state.db_schema # <<>>
    /\ \E typed \in Options : ef_options' = typed
    /\ show_sql_server_uml_page("", {RestoredDatabase})
    /\ UNCHANGED call_vars

\* the button "Generate Code"
GenerateCode ==
    /\ session_state.db_schema # <<>>
    /\ show_sql_server_uml_page("Generate Code", {RestoredDatabase})
    /\ UNCHANGED <<call_vars, ef_options>>

NextApp ==
    ConnectToDatabase \/ RestoreDatabase \/ OpenAnalysisTab \/ EditOptions \/ GenerateCode

SpecApp == InitApp /\ [][NextApp]_vars

-----------------------------------------------------------------------------
(* The five entry points called in any order on one schema *)

\* no table; the tables A and B, B without a key, with and without a foreign
\* key from A to B, with and without a view that reads A
CalledSchemas ==
    {EmptySchema}
    \cup {get_full_schema(Tables(2, <<1, 2>>, x[1]), x[2], <<>>, <<>>) :
             x \in {<<>>, <<(<<1, 2>>)>>} \X Dicts("v", {<<"SELECT * FROM A ">>})}

InitCalls ==
    /\ schema \in CalledSchemas
    /\ done = {}
    /\ all_unsorted = <<>>
    /\ recommendations = <<>>
    /\ metrics = NoMetrics
    /\ printed = <<>>
    /\ code_files = <<>>
    /\ prev_code_files = <<>>
    /\ ident_in = ""
    /\ ident_out = <<>>
    /\ raised = {}
    /\ type_in = ""
    /\ type_out = <<>>
    /\ dependency_graph = <<>>
    /\ uml = <<>>
    /\ session_state = NoSession
    /\ ef_options = DefaultOptions
    /\ displayed = NothingDisplayed

NextCalls ==
    \/ AnalyzeDatabase
    \/ GetDatabaseMetrics
    \/ CreateDependencyGraph
    \/ GenerateEfCode
    \/ GenerateDatabaseUml

SpecCalls == InitCalls /\ [][NextCalls]_vars

-----------------------------------------------------------------------------
(* The identifier functions as a state machine: a name, then calls on it *)

\* the characters of the names: letters of both cases, a digit, separators
IdentAlphabet == {"a", "B", "1", "_", "-"}

RECURSIVE NamesOfLength(_)
NamesOfLength(n) ==
    IF n = 0 THEN {""} ELSE {name \o c : name \in NamesOfLength(n - 1), c \in IdentAlphabet}

IdentInputs ==
    UNION {NamesOfLength(n) : n \in 0..MaxNameLen}
    \cup {"order_items", "Order-Items", "1st_order"}

InitIdent ==
    /\ schema = EmptySchema
    /\ done = {}
    /\ all_unsorted = <<>>
    /\ recommendations = <<>>
    /\ metrics = NoMetrics
    /\ printed = <<>>
    /\ code_files = <<>>
    /\ prev_code_files = <<>>
    /\ ident_in \in IdentInputs
    /\ ident_out = <<>>
    /\ raised = {}
    /\ type_in = ""
    /\ type_out = <<>>
    /\ dependency_graph = <<>>
    /\ uml = <<>>
    /\ session_state = NoSession
    /\ ef_options = DefaultOptions
    /\ displayed = NothingDisplayed

\* ident_out["pascal_case"] = pascal_case(ident_in)
PascalCase ==
    /\ ident_out' = ("pascal_case" :> pascal_case(ident_in)) @@ ident_out
    /\ done' = done \cup {"pascal_case"}
    /\ UNCHANGED <<app_vars, schema, all_unsorted, recommendations, metrics, printed, code_files,
                   prev_code_files, ident_in,
                   raised, type_in, type_out, dependency_graph, uml>>

\* ident_out["camel_case"] = camel_case(ident_in)
CamelCase ==
    /\ ident_out' = ("camel_case" :> camel_case(ident_in)) @@ ident_out
    /\ done' = done \cup {"camel_case"}
    /\ UNCHANGED <<app_vars, schema, all_unsorted, recommendations, metrics, printed, code_files,
                   prev_code_files, ident_in,
                   raised, type_in, type_out, dependency_graph, uml>>

NextIdent == PascalCase \/ CamelCase

SpecIdent == InitIdent /\ [][NextIdent]_vars

-----------------------------------------------------------------------------
(* get_csharp_type as a state machine: a type string, then calls on it *)

MaxCalls == 2

RECURSIVE UpperStr(_)
\* s.upper()
UpperStr(s) == IF s = "" THEN "" ELSE UpperChar(Char(s, 1)) \o UpperStr(From(s, 2))

\* the type names inspection may report: those of the table, and others
TypeNames ==
    DOMAIN SQL_TO_CSHARP_TYPE_MAP \cup {"", "integer", "json", "int identity", " int", "var char"}

\* str(column['type']): a name in either case, alone or with a length or
\* with a precision and a scale
TypeInputs ==
    UNION {{n, UpperStr(n), UpperStr(n) \o "(50)", n \o "(10, 2)", n \o "(", "(" \o n} :
           n \in TypeNames}

InitType ==
    /\ schema = EmptySchema
    /\ done = {}
    /\ all_unsorted = <<>>
    /\ recommendations = <<>>
    /\ metrics = NoMetrics
    /\ printed = <<>>
    /\ code_files = <<>>
    /\ prev_code_files = <<>>
    /\ ident_in = ""
    /\ ident_out = <<>>
    /\ raised = {}
    /\ type_in \in TypeInputs
    /\ type_out = <<>>
    /\ dependency_graph = <<>>
    /\ uml = <<>>
    /\ session_state = NoSession
    /\ ef_options = DefaultOptions
    /\ displayed = NothingDisplayed

\* type_out.append(get_csharp_type(type_in))
GetCsharpType ==
    /\ Len(type_out) < MaxCalls
    /\ type_out' = Append(type_out, get_csharp_type(type_in))
    /\ done' = done \cup {"get_csharp_type"}
    /\ UNCHANGED <<app_vars, schema, all_unsorted, recommendations, metrics, printed, code_files,
                   prev_code_files, ident_in, ident_out, raised, type_in,
                   dependency_graph, uml>>

NextType == GetCsharpType

SpecType == InitType /\ [][NextType]_vars

-----------------------------------------------------------------------------
(* Properties of the analyzer *)

OfSeverity(list, severity) == SelectSeq(list, LAMBDA x : x.severity = severity)

OfType(list, type) == SelectSeq(list, LAMBDA x : x.type = type)

\* the number of findings of a type about an object
CountOf(list, type, object) ==
    Len(SelectSeq(list, LAMBDA x : x.type = type /\ x.object = object))

\* C1: analyze_database returns the findings of the six passes, taken in pass
\* order, rearranged so that the high ones come first, then the medium ones,
\* then the low ones, findings of equal severity keeping their relative order.
C1_StableSortBySeverity ==
    "analyze" \in done =>
        /\ \E o \in Orders(IsolatedTables(schema)) :
              all_unsorted = analyze_table_structure(schema) \o analyze_relationships(schema, o)
                             \o analyze_dependency_cycles(schema)
                             \o analyze_stored_procedures(schema)
                             \o analyze_functions(schema) \o analyze_views(schema)
        /\ recommendations = OfSeverity(all_unsorted, "high")
                             \o OfSeverity(all_unsorted, "medium")
                             \o OfSeverity(all_unsorted, "low")

\* C1 happens: findings of all three severities, several of the same one, and
\* a sort that had to move some
C1_Witness ==
    /\ "analyze" \in done
    /\ Len(OfSeverity(all_unsorted, "high")) >= 2
    /\ Len(OfSeverity(all_unsorted, "medium")) >= 2
    /\ Len(OfSeverity(all_unsorted, "low")) >= 1
    /\ \E i, j \in 1..Len(all_unsorted) :
          /\ i < j
          /\ all_unsorted[i].severity = all_unsorted[j].severity
          /\ all_unsorted[i] # all_unsorted[j]
    /\ recommendations # all_unsorted

\* the tables and the tables referred to
GraphNodes == Range(Keys(schema.tables))
              \cup {schema.relationships[i].source_table : i \in 1..Len(schema.relationships)}
              \cup {schema.relationships[i].target_table : i \in 1..Len(schema.relationships)}

HasRelationship(u, v) ==
    \E i \in 1..Len(schema.relationships) :
        schema.relationships[i].source_table = u /\ schema.relationships[i].target_table = v

\* the lists of distinct nodes
NodeLists == UNION {Orders(S) : S \in (SUBSET GraphNodes) \ {{}}}

\* p is a simple cycle of the foreign-key graph, written from one of its nodes
IsSimpleCycle(p) == \A i \in 1..Len(p) : HasRelationship(p[i], p[(i % Len(p)) + 1])

Rotations(p) == {[i \in 1..Len(p) |-> p[((i + k - 1) % Len(p)) + 1]] : k \in 0..(Len(p) - 1)}

CycleFindings == OfType(recommendations, "dependency_cycle")

IsThreeCycle ==
    /\ Keys(schema.tables) = <<"A", "B", "C">>
    /\ Len(schema.relationships) = 3
    /\ HasRelationship("A", "B") /\ HasRelationship("B", "C") /\ HasRelationship("C", "A")

\* C2: analyze yields one high dependency_cycle finding per simple cycle of
\* the foreign-key graph (a self-loop is one, parallel relationships make no
\* more), each finding is such a cycle joined by ' → ', and the cycle
\* A -> B -> C -> A alone yields the one finding 'A → B → C' or a rotation.
C2_OneFindingPerSimpleCycle ==
    "analyze" \in done =>
        /\ \A i \in 1..Len(CycleFindings) :
              /\ CycleFindings[i].severity = "high"
              /\ \E p \in NodeLists : IsSimpleCycle(p) /\ CycleFindings[i].object = Join(p, " → ")
        /\ \A p \in NodeLists :
              IsSimpleCycle(p) =>
                  Cardinality({i \in 1..Len(CycleFindings) :
                      \E q \in Rotations(p) : CycleFindings[i].object = Join(q, " → ")}) = 1
        /\ IsThreeCycle =>
              /\ Len(CycleFindings) = 1
              /\ CycleFindings[1].object \in {"A → B → C", "B → C → A", "C → A → B"}

\* C2 happens: the three-table cycle has been analyzed
C2_Witness == "analyze" \in done /\ IsThreeCycle /\ Len(CycleFindings) = 1

Touched(t) ==
    \E i \in 1..Len(schema.relationships) :
        schema.relationships[i].source_table = t \/ schema.relationships[i].target_table = t

\* C3: analyze yields one medium isolated_table finding for t exactly when t
\* is a table that is neither source nor target of a relationship; two tables
\* joined by one foreign key get no isolated_table and no dependency_cycle
\* finding.
C3_IsolatedTables ==
    "analyze" \in done =>
        /\ \A i \in 1..Len(recommendations) :
              recommendations[i].type = "isolated_table" =>
                  /\ recommendations[i].severity = "medium"
                  /\ recommendations[i].object \in Range(Keys(schema.tables))
        /\ \A t \in Range(Keys(schema.tables)) :
              CountOf(recommendations, "isolated_table", t) = IF Touched(t) THEN 0 ELSE 1
        /\ (Len(schema.tables) = 2 /\ Len(schema.relationships) = 1
            /\ HasRelationship(schema.tables[1].name, schema.tables[2].name)) =>
              /\ OfType(recommendations, "isolated_table") = <<>>
              /\ OfType(recommendations, "dependency_cycle") = <<>>

\* C3 happens: an isolated table next to two related ones
C3_Witness ==
    /\ "analyze" \in done
    /\ \E t, u \in Range(Keys(schema.tables)) : ~Touched(t) /\ Touched(u)
    /\ Len(OfType(recommendations, "isolated_table")) = 1

\* the relationships that repeat the (source, target) pair of an earlier one
Repeats ==
    SelectSeq([i \in 1..Len(schema.relationships) |-> i],
              LAMBDA i : \E j \in 1..(i - 1) :
                  /\ schema.relationships[j].source_table = schema.relationships[i].source_table
                  /\ schema.relationships[j].target_table = schema.relationships[i].target_table)

JunctionFindings == OfType(recommendations, "junction_table")

\* C4: the relationship pass emits one medium junction_table finding at each
\* second and later occurrence of an ordered (source, target) pair, in
\* relationship order, so k occurrences give k - 1 findings, and A -> B with
\* B -> A gives none.
C4_JunctionPerRepeatedOrderedPair ==
    "analyze" \in done =>
        /\ Len(JunctionFindings) = Len(Repeats)
        /\ \A n \in 1..Len(JunctionFindings) :
              /\ JunctionFindings[n].severity = "medium"
              /\ JunctionFindings[n].object =
                     schema.relationships[Repeats[n]].source_table \o " - "
                     \o schema.relationships[Repeats[n]].target_table
        /\ \A u, v \in GraphNodes :
              LET k == Cardinality({i \in 1..Len(schema.relationships) :
                           /\ schema.relationships[i].source_table = u
                           /\ schema.relationships[i].target_table = v})
              IN k >= 1 => CountOf(recommendations, "junction_table", u \o " - " \o v) = k - 1

\* C4 happens: a pair that occurs twice, with a relationship the other way round
C4_Witness ==
    /\ "analyze" \in done
    /\ Len(Repeats) = 1
    /\ \E u, v \in GraphNodes : u # v /\ HasRelationship(u, v) /\ HasRelationship(v, u)

\* C5: the structural pass emits one high primary_key finding, about the
\* table, for each table whose primary_keys is empty, and none for a table
\* with a primary-key column.
C5_PrimaryKeyFinding ==
    "analyze" \in done =>
        /\ \A i \in 1..Len(recommendations) :
              recommendations[i].type = "primary_key" =>
                  /\ recommendations[i].severity = "high"
                  /\ recommendations[i].object \in Range(Keys(schema.tables))
        /\ \A i \in 1..Len(schema.tables) :
              CountOf(recommendations, "primary_key", schema.tables[i].name)
                  = IF schema.tables[i].primary_keys = <<>> THEN 1 ELSE 0

\* C5 happens: a table without a key, one with a single key column and one
\* with a composite key
C5_Witness ==
    /\ "analyze" \in done
    /\ \E i, j, k \in 1..Len(schema.tables) :
          /\ schema.tables[i].primary_keys = <<>>
          /\ Len(schema.tables[j].primary_keys) = 1
          /\ Len(schema.tables[k].primary_keys) > 1

IsZero(q) == q.num = 0 /\ q.den # 0

\* C6: for the empty schema analyze_database returns the empty list and
\* get_database_metrics returns 0 for every count, for both average degrees,
\* for the density and for connected_components, and no division by zero
\* occurs.
C6_EmptySchema ==
    schema = EmptySchema =>
        /\ "analyze" \in done => recommendations = <<>>
        /\ "metrics" \in done =>
              /\ \A k \in {"table_count", "view_count", "stored_procedure_count",
                           "function_count", "relationship_count", "total_columns",
                           "primary_key_count", "foreign_key_count",
                           "nullable_column_count", "connected_components"} :
                    metrics[k] = 0
              /\ IsZero(metrics.avg_in_degree)
              /\ IsZero(metrics.avg_out_degree)
              /\ IsZero(metrics.density)
              /\ printed = <<>>

\* C6 happens: the empty schema has been analyzed and measured
C6_Witness == schema = EmptySchema /\ done = {"analyze", "metrics"}

-----------------------------------------------------------------------------
(* Properties of the code generator *)

FileNames(files) == {files[i].name : i \in 1..Len(files)}

\* files[path]
FileContent(files, path) == files[CHOOSE i \in 1..Len(files) : files[i].name = path].content

StartsWith(str, prefix) ==
    Len(prefix) <= Len(str) /\ SubSeq(str, 1, Len(prefix)) = prefix

LinesWith(text, part) == SelectSeq(text, LAMBDA line : Contains(line, part))

FixedPaths ==
    {"Data/YourDbContext.cs", "Startup_EF_Config.cs", "EF_Migrations_Commands.txt",
     "Repositories/IRepository.cs", "Repositories/Repository.cs",
     "Repositories/IUnitOfWork.cs", "Repositories/UnitOfWork.cs",
     "Services/IService.cs", "Services/Service.cs"}

\* C7: for the empty schema generate_ef_code returns the nine fixed paths
\* only: nothing under Models/ or Data/Configurations/, no service file of a
\* table, and a context without collection and without relationship wiring.
C7_EmptySchemaFixedFiles ==
    (schema = EmptySchema /\ "generate" \in done) =>
        /\ FileNames(code_files) = FixedPaths
        /\ Len(code_files) = Cardinality(FixedPaths)
        /\ \A i \in 1..Len(code_files) :
              /\ ~StartsWith(code_files[i].name, "Models/")
              /\ ~StartsWith(code_files[i].name, "Data/Configurations/")
              /\ StartsWith(code_files[i].name, "Services/") =>
                     code_files[i].name \in {"Services/IService.cs", "Services/Service.cs"}
        /\ LinesWith(FileContent(code_files, "Data/YourDbContext.cs"), "DbSet<") = <<>>
        /\ LinesWith(FileContent(code_files, "Data/YourDbContext.cs"), "modelBuilder.Entity<") = <<>>

\* C7 happens: code has been generated for the empty schema
C7_Witness == schema = EmptySchema /\ "generate" \in done /\ code_files # <<>>

References(line) ==
    LET at == SelectSeq([i \in 1..Len(line) |-> i],
                        LAMBDA i : i + 2 <= Len(line) /\ SubSeq(line, i, i + 2) = " e.")
    IN [n \in 1..Len(at) |->
          LET rest == From(line, at[n] + 3)
              len == CHOOSE k \in 0..Len(rest) :
                        /\ \A j \in 1..k : ~IsSeparator(Char(rest, j))
                        /\ k < Len(rest) => IsSeparator(Char(rest, k + 1))
          IN SubSeq(rest, 1, len)]

ConfigurationOf(table_name) ==
    FileContent(code_files, "Data/Configurations/" \o pascal_case(table_name) \o "Configuration.cs")

\* C9: the configuration of a table with two or more primary-key columns has
\* one key declaration, which names the upper-camel form of every key column
\* once, in the order of primary_keys; with one key column it declares that
\* property alone, with none it declares no key.
C9_KeyDeclarationInOrder ==
    "generate" \in done =>
        \A t \in 1..Len(schema.tables) :
            LET primary_keys == schema.tables[t].primary_keys
                declared == LinesWith(ConfigurationOf(schema.tables[t].name), "HasKey(")
            IN /\ Len(declared) = IF primary_keys = <<>> THEN 0 ELSE 1
               /\ primary_keys # <<>> =>
                     /\ References(declared[1])
                            = [k \in 1..Len(primary_keys) |-> pascal_case(primary_keys[k])]
                     /\ Len(primary_keys) >= 2 <=> Contains(declared[1], "new {")
               /\ primary_keys = <<"order_id", "id", "line_no">> =>
                     References(declared[1]) = <<"OrderId", "Id", "LineNo">>

\* C9 happens: code has been generated for a table with a three-column key
\* that is not in column order
C9_Witness ==
    /\ "generate" \in done
    /\ \E t \in 1..Len(schema.tables) :
          schema.tables[t].primary_keys = <<"order_id", "id", "line_no">>

-----------------------------------------------------------------------------
(* Properties of the identifier functions *)

\* C10: pascal_case(s) is empty or starts with an upper-case letter, and
\* camel_case(s) is empty or starts with a lower-case letter, for every s,
\* names whose first word starts with a digit included.
C10_FirstCharacterCase ==
    /\ "pascal_case" \in done =>
          \/ ident_out["pascal_case"] = ""
          \/ Char(ident_out["pascal_case"], 1) \in Chars(UpperLetters)
    /\ "camel_case" \in done =>
          \/ ident_out["camel_case"] = ""
          \/ Char(ident_out["camel_case"], 1) \in Chars(LowerLetters)

-----------------------------------------------------------------------------
(* Properties of the identifier functions *)

\* the tokens of a name, as (first, last) positions: its maximal runs of
\* letters and digits
TokenSpans(name) ==
    {x \in (1..Len(name)) \X (1..Len(name)) :
        /\ x[1] <= x[2]
        /\ \A k \in x[1]..x[2] : Char(name, k) \in Alphanumerics
        /\ (x[1] = 1 \/ Char(name, x[1] - 1) \notin Alphanumerics)
        /\ (x[2] = Len(name) \/ Char(name, x[2] + 1) \notin Alphanumerics)}

\* a token with its first letter made a capital, the rest as written
FirstLetterCapitalized(token) == UpperChar(Char(token, 1)) \o From(token, 2)

RECURSIVE CapitalizedTokens(_, _)
\* the tokens of the spans, in the order of the name, each capitalized
CapitalizedTokens(name, spans) ==
    IF spans = {} THEN ""
    ELSE LET first == CHOOSE x \in spans : \A y \in spans : x[1] <= y[1]
         IN FirstLetterCapitalized(SubSeq(name, first[1], first[2]))
            \o CapitalizedTokens(name, spans \ {first})

\* C11: pascal_case(name) is the concatenation, in order, of the non-empty
\* tokens between the non-alphanumeric characters of name, each with its
\* first letter capitalized; '' gives '', 'order_items' gives 'OrderItems'
\* and camel_case('Order-Items') is 'orderItems'.
C11_PascalCaseTokens ==
    /\ "pascal_case" \in DOMAIN ident_out =>
          /\ ident_out["pascal_case"] = CapitalizedTokens(ident_in, TokenSpans(ident_in))
          /\ ident_in = "" => ident_out["pascal_case"] = ""
          /\ ident_in = "order_items" => ident_out["pascal_case"] = "OrderItems"
    /\ "camel_case" \in DOMAIN ident_out =>
          (ident_in = "Order-Items" => ident_out["camel_case"] = "orderItems")

-----------------------------------------------------------------------------
(* Properties of get_csharp_type *)

\* the text of a type string before its first '(' (all of it without one)
BeforeParen(s) ==
    LET k == CHOOSE n \in 0..Len(s) :
                 /\ \A i \in 1..n : Char(s, i) # "("
                 /\ (n = Len(s) \/ Char(s, n + 1) = "(")
    IN SubSeq(s, 1, k)

\* C12: get_csharp_type returns, for every type string, the table entry of
\* the lower-cased text before the first '(' when there is one ('VARCHAR(50)'
\* and 'varchar' give 'string') and 'object' otherwise, without raising, and
\* two calls on the same string return the same.
C12_TypeMapping ==
    /\ raised = {}
    /\ \A i \in 1..Len(type_out) :
          LET base == LowerStr(BeforeParen(type_in)) IN
          /\ base \in DOMAIN SQL_TO_CSHARP_TYPE_MAP => type_out[i] = SQL_TO_CSHARP_TYPE_MAP[base]
          /\ base \notin DOMAIN SQL_TO_CSHARP_TYPE_MAP => type_out[i] = "object"
          /\ type_in \in {"VARCHAR(50)", "varchar"} => type_out[i] = "string"
    /\ \A i, j \in 1..Len(type_out) : type_out[i] = type_out[j]

C12_Witness ==
    /\ type_in = "VARCHAR(50)"
    /\ Len(type_out) = 2

-----------------------------------------------------------------------------
(* Properties of the exceptions *)

\* every definition of the dict is None or text
AllText(entries) == \A i \in 1..Len(entries) : Len(entries[i].definition) <= 1

\* the schema has every key the functions read and text where they read text
StructurallyValid ==
    /\ \A i \in 1..Len(schema.tables) :
          /\ {"columns", "primary_keys", "foreign_keys"} \subseteq DOMAIN schema.tables[i]
          /\ \A c \in 1..Len(schema.tables[i].columns) :
                {"name", "type"} \subseteq DOMAIN schema.tables[i].columns[c]
    /\ AllText(schema.views) /\ AllText(schema.stored_procedures) /\ AllText(schema.functions)

\* C13: on a structurally valid schema neither analyze_database nor
\* generate_ef_code raises, whatever the content: tables without primary
\* keys or foreign keys, no relationship, no table, relationships without a
\* cycle; each call returns a result.
C13_NeverRaises == StructurallyValid => raised = {}

C13_Witness ==
    /\ {"analyze", "generate"} \subseteq done
    /\ raised = {}
    /\ schema.relationships = <<>>
    /\ \E i \in 1..Len(schema.tables) :
          schema.tables[i].primary_keys = <<>> /\ schema.tables[i].foreign_keys = <<>>

\* the objects whose definition a pass cannot read
Unreadable(entries) ==
    {entries[i].name : i \in {k \in 1..Len(entries) : Len(entries[k].definition) > 1}}

FailingObjects ==
    Unreadable(schema.stored_procedures) \cup Unreadable(schema.functions)
    \cup Unreadable(schema.views)

\* C14: when a pass fails on some object, analyze_database does not pass the
\* failure on to its caller: it returns the findings of the other passes and
\* one finding of kind 'analysis_error' for the failing object.
C14_FailureIsolated ==
    FailingObjects # {} =>
        /\ \A r \in raised : r.function # "analyze_database"
        /\ "analyze" \in done =>
              /\ \A o \in FailingObjects :
                    \E i \in 1..Len(recommendations) :
                        /\ recommendations[i].type = "analysis_error"
                        /\ recommendations[i].object = o
              /\ \A i \in 1..Len(analyze_table_structure(schema)) :
                    InList(analyze_table_structure(schema)[i], recommendations)

-----------------------------------------------------------------------------
(* Properties of the dependency graph and of the diagram *)

\* the three dicts of definitions, each with the kind of its objects, the
\* type of the edges that leave them and the flag that includes them
Kinds ==
    {[kind |-> "view", entries |-> schema.views, edge |-> "view_dependency", flag |-> "views"],
     [kind |-> "stored_procedure", entries |-> schema.stored_procedures,
      edge |-> "proc_dependency", flag |-> "procedures"],
     [kind |-> "function", entries |-> schema.functions, edge |-> "func_dependency",
      flag |-> "functions"]}

\* the views, procedures and functions: (kind, name, definition, ...)
Objects ==
    UNION {{[kind |-> k.kind, name |-> k.entries[i].name,
             definition |-> k.entries[i].definition, edge |-> k.edge, flag |-> k.flag] :
               i \in 1..Len(k.entries)} : k \in Kinds}

\* the definition is absent or the empty text
Blank(d) == d = <<>> \/ d = <<"">>

BlankObjects == {o \in Objects : Blank(o.definition)}

\* C15: a view, procedure or function whose definition is empty or absent
\* gives no finding in any analyzer pass, no edge in the graph of
\* create_dependency_graph, no edge in the diagram of generate_database_uml,
\* and no error.
C15_EmptyDefinitionSkipped ==
    BlankObjects # {} =>
        /\ raised = {}
        /\ \A o \in BlankObjects :
              /\ "analyze" \in done =>
                    \A i \in 1..Len(recommendations) : recommendations[i].object # o.name
              /\ "graph" \in done =>
                    \A i \in 1..Len(dependency_graph.edges) :
                        dependency_graph.edges[i].source # o.name
              /\ "uml" \in done =>
                    \A i \in 1..Len(uml.graph.edges) : uml.graph.edges[i].source # o.name

\* all three functions have returned on a schema with an absent and an empty
\* definition, the diagram drawn with every flag set
C15_Witness ==
    /\ done = {"analyze", "graph", "uml"}
    /\ \A k \in DOMAIN uml.flags : uml.flags[k]
    /\ \E o \in Objects : o.definition = <<>>
    /\ \E o \in Objects : o.definition = <<"">>

\* the names of the nodes of the dependency graph
NodeNames == {dependency_graph.nodes[i].name : i \in 1..Len(dependency_graph.nodes)}

\* C16: the nodes of the graph of create_dependency_graph include every
\* table name, view name, procedure name and function name of the schema,
\* also those of routines whose definition is empty or unknown.
C16_AllObjectsAreNodes ==
    "graph" \in done =>
        /\ Range(Keys(schema.tables)) \subseteq NodeNames
        /\ \A o \in Objects : o.name \in NodeNames

\* the edges of the dependency graph of one type
EdgesOfType(type) == SelectSeq(dependency_graph.edges, LAMBDA e : e.type = type)

\* C17: the graph of create_dependency_graph has one foreign_key edge per
\* relationship, from the source table to the referred table: as many
\* foreign_key edges as relationships, also when relationships share their
\* (source, target) pair.
C17_OneEdgePerRelationship ==
    "graph" \in done =>
        /\ Len(EdgesOfType("foreign_key")) = Len(schema.relationships)
        /\ \A i \in 1..Len(schema.relationships) :
              \E j \in 1..Len(dependency_graph.edges) :
                  /\ dependency_graph.edges[j].source = schema.relationships[i].source_table
                  /\ dependency_graph.edges[j].target = schema.relationships[i].target_table
                  /\ dependency_graph.edges[j].type = "foreign_key"

\* text is part of d, read character by character
Occurs(text, d) ==
    \E k \in 0..(Len(d) - Len(text)) :
        \A c \in 1..Len(text) : Char(d, k + c) = Char(text, c)

\* C18: for every view, procedure or function o with a non-empty definition
\* d and every table name T, the graph has an edge from o to T exactly when
\* d contains ' T ' or '[T]', in that case, and the edge has the type of the
\* kind of o; T inside another identifier, unpadded, adds no edge.
C18_EdgeIffMentioned ==
    "graph" \in done =>
        \A o \in Objects : \A T \in Range(Keys(schema.tables)) :
            ~Blank(o.definition) =>
                LET edges == SelectSeq(dependency_graph.edges,
                                       LAMBDA e : e.source = o.name /\ e.target = T)
                    named == \/ Occurs(" " \o T \o " ", o.definition[1])
                             \/ Occurs("[" \o T \o "]", o.definition[1])
                IN /\ named => Len(edges) = 1 /\ edges[1].type = o.edge
                   /\ ~named => edges = <<>>

\* the graph is built for a view that names A only in lower case and inside
\* A1, and for a procedure that names A padded and B in brackets
C18_Witness ==
    /\ "graph" \in done
    /\ \E o \in Objects : o.definition = <<"select id from a WHERE A1 = 1">>
    /\ \E o \in Objects : o.definition = <<"UPDATE A SET ref = 1 ; DELETE FROM [B]">>

\* the names of the nodes of the diagram drawn as kind
DrawnAs(kind) == {uml.graph.nodes[i].name :
                     i \in {k \in 1..Len(uml.graph.nodes) : uml.graph.nodes[k].kind = kind}}

\* the flags of the categories a name belongs to
FlagsOf(name) ==
    (IF name \in Range(Keys(schema.tables)) THEN {"tables"} ELSE {})
    \cup {o.flag : o \in {x \in Objects : x.name = name}}

\* C19: for each of the 16 settings of the four flags, generate_database_uml
\* emits a node for an object exactly when the flag of its category is set,
\* and no edge with an end in a category whose flag is cleared: foreign-key
\* edges only with the tables, dependency edges only with both their kind of
\* object and the tables.
C19_FlagsFilterDiagram ==
    "uml" \in done =>
        /\ DrawnAs("table") = (IF uml.flags["tables"] THEN Range(Keys(schema.tables)) ELSE {})
        /\ \A k \in Kinds :
              DrawnAs(k.kind) = (IF uml.flags[k.flag] THEN Range(Keys(k.entries)) ELSE {})
        /\ \A i \in 1..Len(uml.graph.edges) :
              LET e == uml.graph.edges[i] IN
              /\ \A f \in FlagsOf(e.source) \cup FlagsOf(e.target) : uml.flags[f]
              /\ e.style = "foreign_key" => uml.flags["tables"]
              /\ \A k \in Kinds : e.style = k.edge => uml.flags[k.flag] /\ uml.flags["tables"]

\* the diagram is drawn without the tables for a schema with a foreign key
\* and a view that names a table
C19_Witness ==
    /\ "uml" \in done
    /\ ~uml.flags["tables"] /\ uml.flags["views"]
    /\ schema.relationships # <<>>
    /\ \E o \in Objects : o.kind = "view" /\ o.definition = <<"SELECT * FROM A ">>

-----------------------------------------------------------------------------
(* Properties of the metrics *)

\* the ways of putting the tables in numbered groups
Groupings == [GraphNodes -> 1..Cardinality(GraphNodes)]

\* no relationship joins two groups
Separates(g) ==
    \A i \in 1..Len(schema.relationships) :
        g[schema.relationships[i].source_table] = g[schema.relationships[i].target_table]

\* the groups in use
GroupsOf(g) == {g[n] : n \in GraphNodes}

\* the weakly connected components of the relationship graph: the largest
\* number of groups that no relationship joins
WeakComponents ==
    IF GraphNodes = {} THEN 0
    ELSE CHOOSE n \in 1..Cardinality(GraphNodes) :
             /\ \E g \in Groupings : Separates(g) /\ Cardinality(GroupsOf(g)) = n
             /\ \A g \in Groupings : Separates(g) => Cardinality(GroupsOf(g)) <= n

\* C20: connected_components is the number of weakly connected components
\* of the directed graph of the tables and the relationships: a table
\* without relationships is a component of its own, and the foreign-key
\* cycle A -> B -> C -> A gives 1.
C20_WeakComponents ==
    "metrics" \in done =>
        /\ metrics.connected_components = WeakComponents
        /\ schema.relationships = <<>> => metrics.connected_components = Len(schema.tables)
        /\ IsThreeCycle => metrics.connected_components = 1

\* the metrics are computed for two tables joined by a foreign key and a
\* third table without relationships
C20_Witness ==
    /\ "metrics" \in done
    /\ Len(schema.tables) = 3
    /\ Len(schema.relationships) = 1
    /\ HasRelationship("A", "B")
    /\ metrics.connected_components = 2

-----------------------------------------------------------------------------
(* Properties of the names in the generated files *)

\* the text of line between the first open and the next close after it
Between(line, open, close) ==
    LET i == CHOOSE k \in 1..(Len(line) - Len(open) + 1) :
                 /\ SubSeq(line, k, k + Len(open) - 1) = open
                 /\ \A j \in 1..(k - 1) : SubSeq(line, j, j + Len(open) - 1) # open
    IN SplitFirst(SubSeq(line, i + Len(open), Len(line)), close)

\* the names that the lines of the files under the directory dir give
\* between open and close
NamesIn(dir, open, close) ==
    UNION {{Between(code_files[i].content[l], open, close) :
               l \in {k \in 1..Len(code_files[i].content) :
                         Contains(code_files[i].content[k], open)}} :
           i \in {k \in 1..Len(code_files) : StartsWith(code_files[k].name, dir)}}

\* the entity classes that the files under Models/ declare
DeclaredEntities == NamesIn("Models/", "    public class ", " ")

\* the entity classes that the generated files refer to: types of navigation
\* properties, collections and wiring of the context, configurations,
\* repositories of the unit of work, services ('T' is the type parameter of
\* the generic repository and service)
ReferencedEntities ==
    (NamesIn("Models/", "        public virtual ", " ")
     \cup NamesIn("Data/", "DbSet<", ">")
     \cup NamesIn("Data/", "modelBuilder.Entity<", ">")
     \cup NamesIn("Data/Configurations/", "IEntityTypeConfiguration<", ">")
     \cup NamesIn("Repositories/IUnitOfWork.cs", "IRepository<", ">")
     \cup NamesIn("Repositories/UnitOfWork.cs", "IRepository<", ">")
     \cup NamesIn("Services/", " IService<", ">")
     \cup NamesIn("Services/", " Service<", ">")) \ {"T"}

\* the files of the table of entity class P name the entity P
NamedAlike(P) ==
    /\ \E i \in 1..Len(code_files) :
          /\ code_files[i].name = "Models/" \o P \o ".cs"
          /\ InList("    public class " \o P, code_files[i].content)
    /\ InList("        public DbSet<" \o P \o "> " \o P \o "s { get; set; }",
              FileContent(code_files, "Data/YourDbContext.cs"))
    /\ \E i \in 1..Len(code_files) :
          /\ code_files[i].name = "Data/Configurations/" \o P \o "Configuration.cs"
          /\ InList("    public class " \o P \o "Configuration : IEntityTypeConfiguration<"
                    \o P \o ">", code_files[i].content)
    /\ InList("        IRepository<" \o P \o "> " \o P \o "Repository { get; }",
              FileContent(code_files, "Repositories/IUnitOfWork.cs"))
    /\ InList("        public IRepository<" \o P \o "> " \o P \o "Repository",
              FileContent(code_files, "Repositories/UnitOfWork.cs"))
    /\ \E i \in 1..Len(code_files) :
          /\ code_files[i].name = "Services/I" \o P \o "Service.cs"
          /\ InList("    public interface I" \o P \o "Service : IService<" \o P \o ">",
                    code_files[i].content)
    /\ \E i \in 1..Len(code_files) :
          /\ code_files[i].name = "Services/" \o P \o "Service.cs"
          /\ InList("    public class " \o P \o "Service : Service<" \o P \o ">, I" \o P
                    \o "Service", code_files[i].content)
          /\ InList("            : base(unitOfWork, unitOfWork." \o P \o "Repository)",
                    code_files[i].content)

\* C21: the generated files name the entity of every table T by
\* pascal_case(T) everywhere (entity class, collection of the context,
\* configuration, repository property of the unit of work, service interface
\* and implementation with the repository property its constructor reads),
\* and no generated file refers to an entity that no entity file declares.
C21_OneIdentifierPerEntity ==
    "generate" \in done =>
        /\ \A t \in 1..Len(schema.tables) : NamedAlike(pascal_case(schema.tables[t].name))
        /\ ReferencedEntities \subseteq DeclaredEntities

\* the files of each table name its entity alike, and every entity referred
\* to is declared or is the target of a foreign key
EntitiesNamedAlike ==
    "generate" \in done =>
        /\ \A t \in 1..Len(schema.tables) : NamedAlike(pascal_case(schema.tables[t].name))
        /\ ReferencedEntities \ {pascal_case(schema.relationships[r].target_table) :
                                    r \in 1..Len(schema.relationships)}
               \subseteq DeclaredEntities

-----------------------------------------------------------------------------
(* Properties of the page *)

\* the context class of files is named name, in the namespace given, and the
\* repository, the unit of work and the startup code refer to it by that name
ContextNamed(files, name, namespace) ==
    /\ "Data/" \o name \o ".cs" \in FileNames(files)
    /\ InList("namespace " \o namespace \o ".Data", FileContent(files, "Data/" \o name \o ".cs"))
    /\ InList("    public class " \o name \o " : DbContext",
              FileContent(files, "Data/" \o name \o ".cs"))
    /\ InList("        protected readonly " \o name \o " _context;",
              FileContent(files, "Repositories/Repository.cs"))
    /\ InList("        public Repository(" \o name \o " context)",
              FileContent(files, "Repositories/Repository.cs"))
    /\ InList("        private readonly " \o name \o " _context;",
              FileContent(files, "Repositories/UnitOfWork.cs"))
    /\ InList("        public UnitOfWork(" \o name \o " context)",
              FileContent(files, "Repositories/UnitOfWork.cs"))
    /\ InList("services.AddDbContext<" \o name \o ">(options =>",
              FileContent(files, "Startup_EF_Config.cs"))

\* C22: the code generated for a configured namespace and context name
\* declares the context class under that name, and the generic repository,
\* the unit of work and the startup snippet refer to the context by that
\* same name.
C22_ConfiguredContextName ==
    displayed.code_files # <<>> =>
        ContextNamed(displayed.code_files[1], ef_options.context_name, ef_options.namespace)

\* whatever is configured, the files name the context YourDbContext and the
\* namespace YourNamespace, in every file alike
ContextNamedAsWritten ==
    displayed.code_files # <<>> =>
        ContextNamed(displayed.code_files[1], "YourDbContext", "YourNamespace")

\* findings is a list that analyze_database(s) can return
FindingsOf(s, findings) ==
    /\ analyze_database_raised(s) = <<>>
    /\ \E iso_order \in Orders(IsolatedTables(s)) :
          findings = SortBySeverity(AllRecommendations(s, iso_order))

\* files is the dict that generate_ef_code(s) returns
CodeOf(s, files) ==
    /\ generate_ef_code_raised(s) = <<>>
    /\ files = generate_ef_code(s)

\* C30: whenever db_schema is set, the findings and the code that the
\* session holds and that the page displays were computed from that
\* db_schema, after any connect, restore, analysis-tab and generate-code
\* runs, whichever of their steps failed: a second database never leaves the
\* first one's findings or code on display.
C30_SessionOfOneSchema ==
    session_state.db_schema # <<>> =>
        /\ Truthy(session_state.recommendations) =>
              FindingsOf(session_state.db_schema[1], session_state.recommendations[1])
        /\ Truthy(displayed.recommendations) =>
              FindingsOf(session_state.db_schema[1], displayed.recommendations[1])
        /\ session_state.code_files # <<>> =>
              CodeOf(session_state.db_schema[1], session_state.code_files[1])
        /\ displayed.code_files # <<>> =>
              CodeOf(session_state.db_schema[1], displayed.code_files[1])

\* two tables whose names differ and whose pascal_case is the same
Colliding ==
    /\ Len(schema.tables) = 2
    /\ schema.tables[1].name # schema.tables[2].name
    /\ pascal_case(schema.tables[1].name) = pascal_case(schema.tables[2].name)

\* how many entries of the dict have the key path
PathCount(files, path) == Cardinality({i \in 1..Len(files) : files[i].name = path})

\* how many lines of text are the line given
LineCount(text, line) == Cardinality({l \in 1..Len(text) : text[l] = line})

\* C23: when two tables have the same pascal_case P, generate_ef_code raises
\* nothing and returns one entity path, one configuration path and one pair
\* of service paths for P, each with the content of one of the two tables
\* and not of the other, while the context declares the collection and the
\* unit of work the repository property of P twice.
C23_CollisionKeepsOneTable ==
    Colliding =>
        /\ raised = {}
        /\ "generate" \in done =>
              LET P == pascal_case(schema.tables[1].name)
                  entity == [t \in 1..2 |->
                                generate_entity_class(schema.tables[t].name, schema.tables[t].columns,
                                    schema.tables[t].primary_keys, schema.tables[t].foreign_keys)]
                  configuration == [t \in 1..2 |->
                                       EntityConfiguration(schema.tables[t].name, schema.tables[t])]
              IN /\ PathCount(code_files, "Models/" \o P \o ".cs") = 1
                 /\ PathCount(code_files, "Data/Configurations/" \o P \o "Configuration.cs") = 1
                 /\ PathCount(code_files, "Services/I" \o P \o "Service.cs") = 1
                 /\ PathCount(code_files, "Services/" \o P \o "Service.cs") = 1
                 /\ Len(code_files) = Cardinality(FixedPaths) + 4
                 /\ entity[1] # entity[2]
                 /\ FileContent(code_files, "Models/" \o P \o ".cs") \in {entity[1], entity[2]}
                 /\ configuration[1] # configuration[2]
                 /\ FileContent(code_files, "Data/Configurations/" \o P \o "Configuration.cs")
                        \in {configuration[1], configuration[2]}
                 /\ LineCount(FileContent(code_files, "Data/YourDbContext.cs"),
                              "        public DbSet<" \o P \o "> " \o P \o "s { get; set; }") = 2
                 /\ LineCount(FileContent(code_files, "Repositories/IUnitOfWork.cs"),
                              "        IRepository<" \o P \o "> " \o P \o "Repository { get; }") = 2
                 /\ LineCount(FileContent(code_files, "Repositories/UnitOfWork.cs"),
                              "        public IRepository<" \o P \o "> " \o P \o "Repository") = 2

\* C23 happens: code has been generated for the tables 'order_items' and
\* 'order items', the first with a primary key and the second without
C23_Witness ==
    /\ Colliding
    /\ "generate" \in done
    /\ schema.tables[1].primary_keys # <<>>
    /\ schema.tables[2].primary_keys = <<>>
    /\ FileContent(code_files, "Models/OrderItems.cs")
           = generate_entity_class(schema.tables[2].name, schema.tables[2].columns,
                                   schema.tables[2].primary_keys, schema.tables[2].foreign_keys)

-----------------------------------------------------------------------------
(* Properties of the calls on one schema *)

\* every result held is the result of its call on the schema as it is now
ResultsOfSchema ==
    /\ "analyze" \in done => FindingsOf(schema, recommendations)
    /\ "metrics" \in done => metrics = get_database_metrics(schema).metrics
    /\ "graph" \in done => dependency_graph = create_dependency_graph(schema)
    /\ "generate" \in done => CodeOf(schema, code_files)
    /\ "uml" \in done =>
          uml.graph = generate_database_uml(schema, uml.flags["tables"], uml.flags["views"],
                                            uml.flags["procedures"], uml.flags["functions"])

\* C24: analyze_database, get_database_metrics, create_dependency_graph,
\* generate_ef_code and generate_database_uml leave the schema as it was
\* (tables, columns, keys, views, routines, relationships), and after any
\* sequence of these calls each result is the one its call gives on that
\* schema: no call keeps state that changes a later result.
C24_SchemaReadOnly == [][schema' = schema]_vars /\ []ResultsOfSchema

\* C24 happens: the five calls have returned on a schema with a foreign key
\* and a view
C24_Witness ==
    /\ done = {"analyze", "metrics", "graph", "generate", "uml"}
    /\ schema.relationships # <<>>
    /\ schema.views # <<>>
    /\ prev_code_files # <<>>

-----------------------------------------------------------------------------
(* Properties of the rules on definitions *)

\* the number of findings of a type and a severity about an object
FindingCount(list, type, severity, object) ==
    Len(SelectSeq(list, LAMBDA x : x.type = type /\ x.severity = severity /\ x.object = object))

\* C25: for a stored procedure with a non-empty definition d, the list has
\* one high reliability finding about it if d contains 'BEGIN TRANSACTION'
\* and lacks 'COMMIT' or lacks 'ROLLBACK', and none otherwise: none with
\* both words, one with 'COMMIT' and without 'ROLLBACK'.
C25_TransactionRule ==
    "analyze" \in done =>
        \A i \in 1..Len(schema.stored_procedures) :
            LET d == schema.stored_procedures[i].definition
                found == FindingCount(recommendations, "reliability", "high",
                                      schema.stored_procedures[i].name)
            IN /\ ~Blank(d) =>
                     found = IF Occurs("BEGIN TRANSACTION", d[1])
                                /\ (~Occurs("COMMIT", d[1]) \/ ~Occurs("ROLLBACK", d[1]))
                             THEN 1 ELSE 0
               /\ d = <<"BEGIN TRANSACTION DELETE FROM B COMMIT ROLLBACK">> => found = 0
               /\ d = <<"BEGIN TRANSACTION UPDATE A SET ref = 1 COMMIT">> => found = 1

\* C25 happens: a procedure that begins a transaction and has 'COMMIT'
\* without 'ROLLBACK' has been analyzed
C25_Witness ==
    /\ "analyze" \in done
    /\ \E i \in 1..Len(schema.stored_procedures) :
          /\ schema.stored_procedures[i].definition
                 = <<"BEGIN TRANSACTION UPDATE A SET ref = 1 COMMIT">>
          /\ FindingCount(recommendations, "reliability", "high",
                          schema.stored_procedures[i].name) = 1

\* view_def.split("FROM")[0], read character by character
BeforeFirstFrom(d) ==
    LET at == {k \in 1..(Len(d) - 3) : Occurs("FROM", SubSeq(d, k, k + 3))}
    IN IF at = {} THEN d
       ELSE SubSeq(d, 1, (CHOOSE k \in at : \A j \in at : k <= j) - 1)

\* C26: for a view with a non-empty definition d, the list has the low
\* performance finding about it exactly when the part of d before the first
\* 'FROM' contains 'SELECT' and a parenthesis; a parenthesis after the first
\* 'FROM' only, as in WHERE ... IN (...), gives no finding.
C26_SubqueryRule ==
    "analyze" \in done =>
        \A i \in 1..Len(schema.views) :
            LET d == schema.views[i].definition
                found == FindingCount(recommendations, "performance", "low", schema.views[i].name)
            IN ~Blank(d) =>
                  found = IF Occurs("SELECT", BeforeFirstFrom(d[1]))
                             /\ Occurs("(", BeforeFirstFrom(d[1]))
                          THEN 1 ELSE 0


\* the columns among columns whose property the line of code names
WiredColumns(line, columns) ==
    {c \in Range(columns) : Contains(line, "." \o pascal_case(c))}

\* the relationships that have a source column and a target column
WithColumns(relationships) ==
    SelectSeq(relationships, LAMBDA rel : rel.source_columns # <<>> /\ rel.target_columns # <<>>)

\* C27: the context class has one DbSet line per table and one relationship
\* wiring per relationship whose source_columns and target_columns are both
\* non-empty, the others are skipped and nothing is raised; the wiring of a
\* relationship names the same foreign-key columns as the configuration
\* class of its source table does for the same foreign key.
C27_ContextWiring ==
    "generate" \in done =>
        LET context == FileContent(code_files, "Data/YourDbContext.cs")
            wired == WithColumns(schema.relationships)
            keys == LinesWith(context, ".HasForeignKey(")
        IN /\ raised = {}
           /\ Len(LinesWith(context, "public DbSet<")) = Len(schema.tables)
           /\ \A t \in 1..Len(schema.tables) :
                 LineCount(context, "        public DbSet<" \o pascal_case(schema.tables[t].name)
                                    \o "> " \o pascal_case(schema.tables[t].name)
                                    \o "s { get; set; }") = 1
           /\ Len(LinesWith(context, "modelBuilder.Entity<")) = Len(wired)
           /\ Len(keys) = Len(wired)
           /\ \A r \in 1..Len(wired) :
                 LET k == Cardinality({j \in 1..r : wired[j].source_table = wired[r].source_table})
                     configured == LinesWith(ConfigurationOf(wired[r].source_table), ".HasForeignKey(")
                 IN /\ k <= Len(configured)
                    /\ WiredColumns(keys[r], wired[r].source_columns)
                           = WiredColumns(configured[k], wired[r].source_columns)


\* C28: a second run of analyze_database on the same schema returns the
\* findings of the first run in the same order, the isolated_table findings
\* of two or more isolated tables included.
C28_SameFindingsInOrder ==
    [][("analyze" \in done /\ "analyze" \in done' /\ schema' = schema)
           => recommendations' = recommendations]_vars


\* C29: whatever the names of the tables, the bundle holds the generic
\* service interface at Services/IService.cs and the generic service class
\* at Services/Service.cs, with the text they have for the empty schema; no
\* service file of a table takes their place.
C29_GenericServicesKept ==
    "generate" \in done =>
        /\ PathCount(code_files, "Services/IService.cs") = 1
        /\ PathCount(code_files, "Services/Service.cs") = 1
        /\ FileContent(code_files, "Services/IService.cs") = IServiceText
        /\ FileContent(code_files, "Services/Service.cs") = ServiceText

====
